---- MODULE Spec2Model ----
(***************************************************************************)
(* A model of the periscope/UNIS versioned resource store:                 *)
(*   - the backing collection with its unique (id, ts) index,              *)
(*   - Store.insert (periscope/db.py, IncompleteMongoDBLayer),             *)
(*   - NetworkResource.insert_resource with its compensating rollback,     *)
(*   - the DELETE and single-resource GET handlers,                        *)
(*   - the asyncmongo cursor adapter (fetch_next / next_object).           *)
(* Documents are modelled as functions from field names to values, the     *)
(* way the code handles them as dicts.                                     *)
(***************************************************************************)
EXTENDS Integers, Sequences, FiniteSets, TLC

VARIABLES
    coll,     \* the backing collection: documents in storage (natural) order
    now,      \* time.time() in microseconds, abstracted to a small counter
    ir,       \* the in-flight insert_resource request (POST/PUT)
    dreq,     \* the in-flight DELETE requests
    greq,     \* the in-flight single-resource GET request
    last,     \* what the step just taken did: the response it produced
    tomb,     \* the ids deleted with success and not inserted since
    ins,      \* Store.insert: the call waiting for the backend's reply
    cbs,      \* Store.insert: the invocations of the caller's callback
    cur,      \* AsyncmongoDBCursor: _data, _error, _has_results, native cursor
    srv,      \* the backend side of the cursor: documents not yet sent
    run,      \* the caller's loop 'while (yield fetch_next): next_object()'
    ps        \* the pub/sub log, the application's handle on it, the subscribers

vars == <<coll, now, ir, dreq, greq, last, tomb, ins, cbs, cur, srv, run, ps>>

---------------------------------------------------------------------------
(* Bounds *)

MaxTime == 3
MaxDocs == 3
MaxBatch == 3
MaxDeletes == 1
MaxInFlight == 1
MaxList == 2
MaxResults == 3
MaxCalls == 4
MaxText == 6
MaxLog == 2

Ids == {"a", "b"}
BaseUrls == {"http://h1/nodes", "http://h2/nodes"}
Times == 1..MaxTime

---------------------------------------------------------------------------
(* Dicts *)

Put(d, k, v) == [x \in DOMAIN d \cup {k} |-> IF x = k THEN v ELSE d[x]]

Range(s) == {s[i] : i \in DOMAIN s}

---------------------------------------------------------------------------
(* Object ids.  bson ObjectId() is unique among the ids in use; the model  *)
(* takes the least ones not in use.                                        *)

MaxOid == 2 * MaxDocs + MaxBatch + MaxDeletes

OidNames == [n \in 1..MaxOid |-> "ObjectId(" \o ToString(n) \o ")"]

ObjectId(n) == OidNames[n]

ObjectIds == {OidNames[n] : n \in 1..MaxOid}

HexNames == [o \in ObjectIds |->
                "hex" \o ToString(CHOOSE n \in 1..MaxOid : OidNames[n] = o)]

\* str(v): the hexadecimal text of an ObjectId, a string as it is
str(v) == IF v \in ObjectIds THEN HexNames[v] ELSE v

RECURSIVE new_object_ids(_, _)
\* n calls of object_id(), none returning a value of `used`
new_object_ids(used, n) ==
    IF n = 0 THEN <<>>
    ELSE LET k == CHOOSE k \in 1..MaxOid :
                      /\ ObjectId(k) \notin used
                      /\ \A j \in 1..(k-1) : ObjectId(j) \in used
         IN <<ObjectId(k)>> \o new_object_ids(used \cup {ObjectId(k)}, n - 1)

\* every ObjectId a stored or in-flight document carries, as _id or as id
OidsOf(docs) ==
    {o \in ObjectIds : \E d \in docs :
        \/ "_id" \in DOMAIN d /\ d["_id"] = o
        \/ "id" \in DOMAIN d /\ d["id"] = HexNames[o]}

---------------------------------------------------------------------------
(* The backing collection *)

\* a collection whose only unique index is the one on _id
NoIndexDuplicateKey(c, d) == \E i \in DOMAIN c : c[i]["_id"] = d["_id"]

\* the unique index on (id, ts), and the one on _id
DuplicateKey(c, d) ==
    \E i \in DOMAIN c :
        \/ c[i]["_id"] = d["_id"]
        \/ c[i]["id"] = d["id"] /\ c[i]["ts"] = d["ts"]

RECURSIVE collection_insert(_, _)
\* collection.insert(docs): the documents are stored one after the other, and
\* the first one that violates a unique index ends the insert with an error
collection_insert(c, docs) ==
    IF docs = <<>> THEN [coll |-> c, error |-> "None"]
    ELSE IF DuplicateKey(c, Head(docs))
         THEN [coll |-> c, error |-> "duplicate key error"]
         ELSE collection_insert(Append(c, Head(docs)), Tail(docs))

\* the documents a query matches, a query being a set of conditions
\* (the members of a $or), each a dict of required field values
Matches(d, cond) == \A k \in DOMAIN cond : k \in DOMAIN d /\ d[k] = cond[k]

MatchesOr(d, conds) == \E cond \in conds : Matches(d, cond)

RECURSIVE collection_find(_, _)
\* collection.find({'$or': conds}) with no sort: storage order
collection_find(c, conds) ==
    IF c = <<>> THEN <<>>
    ELSE IF MatchesOr(Head(c), conds)
         THEN <<Head(c)>> \o collection_find(Tail(c), conds)
         ELSE collection_find(Tail(c), conds)

RECURSIVE collection_remove(_, _)
\* collection.remove({'$or': conds})
collection_remove(c, conds) ==
    IF c = <<>> THEN <<>>
    ELSE IF MatchesOr(Head(c), conds)
         THEN collection_remove(Tail(c), conds)
         ELSE <<Head(c)>> \o collection_remove(Tail(c), conds)

\* AsyncmongoDBLayer.find hides _id
HideId(d) == [k \in DOMAIN d \ {"_id"} |-> d[k]]

Project(s) == [i \in DOMAIN s |-> HideId(s[i])]

---------------------------------------------------------------------------
(* Store.insert *)

TsNone == 0 - 1

\* an _insert_id that stamps every document with the current time
insert_id_stamped(data, oid, t) ==
    LET d1 == Put(data, "ts", t)
        d2 == IF "_id" \notin DOMAIN d1 THEN Put(d1, "_id", oid) ELSE d1
    IN IF "id" \notin DOMAIN d2 THEN Put(d2, "id", str(d2["_id"])) ELSE d2

\* _insert_id: the document as sent to the backend (oid is the value
\* object_id() returns if it is called)
insert_id(data, oid, t) ==
    LET d1 == IF "ts" \notin DOMAIN data \/ data["ts"] = TsNone
              THEN Put(data, "ts", t) ELSE data
        d2 == IF "_id" \notin DOMAIN d1 THEN Put(d1, "_id", oid) ELSE d1
        d3 == IF "id" \notin DOMAIN d2 THEN Put(d2, "id", str(d2["_id"])) ELSE d2
    IN d3

\* insert: [self._insert_id(obj) for obj in ldata], the documents as sent
InsertIds(ldata, used, t) ==
    LET oids == new_object_ids(used, Len(ldata))
    IN [i \in DOMAIN ldata |-> insert_id(ldata[i], oids[i], t)]

\* the backend's reply to collection.insert: the collection afterwards and
\* the error.  k < Len(docs) is a failure of the backend (the connection is
\* lost) after k documents.
BackendInsert(c, docs, k) ==
    LET r == collection_insert(c, SubSeq(docs, 1, k))
    IN IF k = Len(docs) \/ r.error # "None" THEN r
       ELSE [coll |-> r.coll, error |-> "connection lost"]

---------------------------------------------------------------------------
(* NetworkResource.insert_resource *)

\* the body items a client may send: id and ts are optional
Absent == "absent"

BodyItem(id, ts) ==
    LET d0 == [status |-> "ACTIVE"]
        d1 == IF id = Absent THEN d0 ELSE Put(d0, "id", id)
    IN IF ts = TsNone THEN d1 ELSE Put(d1, "ts", ts)

BodyItems == {BodyItem(id, ts) : id \in Ids \cup {Absent},
                                 ts \in Times \cup {TsNone}}

\* the items that name their resource
NamedItems == {it \in BodyItems : "id" \in DOMAIN it}

\* NetworkResource.__init__ and create_resources, for one item
create_resource(item, base_url, oid, t) ==
    LET id == IF "id" \in DOMAIN item THEN item["id"] ELSE str(oid)
        ts == IF "ts" \in DOMAIN item THEN item["ts"] ELSE t
    IN Put(Put(Put(item, "id", id), "ts", ts),
           "selfRef", base_url \o "/" \o id)

create_resources(body, base_url, used, t) ==
    LET oids == new_object_ids(used, Len(body))
    IN [i \in DOMAIN body |-> create_resource(body[i], base_url, oids[i], t)]

\* the (id, ts) pairs of the documents of a batch
BatchKeys(resources) ==
    {<<resources[i]["id"], resources[i]["ts"]>> : i \in DOMAIN resources}

\* a rollback that removes the first resource only
RollbackFirst(resources) ==
    {[id |-> resources[1]["id"], ts |-> resources[1]["ts"]]}

\* _rollback: the remove query
RollbackQuery(resources) ==
    {[id |-> r["id"], ts |-> r["ts"]] : r \in Range(resources)}

\* an error report whose code ignores the outcome of the rollback
InsertErrorRolledBack(insert_error, remove_error) ==
    IF insert_error = "duplicate key error"
    THEN [status_code |-> 409, code |-> 409001]
    ELSE [status_code |-> 500, code |-> 500001]

\* the error insert_resource reports after a failed insert
InsertError(insert_error, remove_error) ==
    LET status_code == IF insert_error = "duplicate key error" THEN 409 ELSE 500
        code == IF remove_error = "None"
                THEN (IF status_code = 409 THEN 409001 ELSE 500001)
                ELSE (IF status_code = 409 THEN 409002 ELSE 500002)
    IN [status_code |-> status_code, code |-> code]

NoError == [status_code |-> 0, code |-> 0]

Idle == [pc |-> "idle"]

NoStep == [op |-> "none"]

DelReqs == 1..MaxDeletes

\* the DELETE requests a server holds at once when one more arrives while
\* another is suspended between its find and its insert
DelSlots == 1..(MaxDeletes + 1)

InFlight ==
    (IF ir.pc = "idle" THEN {} ELSE Range(ir.resources))
    \cup {dreq[r].deleted : r \in {x \in DelSlots : dreq[x].pc = "insert"}}

UsedOids == OidsOf(Range(coll) \cup InFlight)

\* the requests between two of their steps
Pending ==
    (IF ir.pc = "idle" THEN 0 ELSE 1)
    + Cardinality({r \in DelSlots : dreq[r].pc # "idle"})
    + (IF greq.pc = "idle" THEN 0 ELSE 1)

\* a new request is taken on
Accepts == last = NoStep /\ Pending < MaxInFlight

\* a request in flight goes on
Ready == last = NoStep

\* a GET between its aggregation and its find sees the collection change
Touch(g, c) == IF g.pc = "find" /\ c # coll THEN [g EXCEPT !.dirty = TRUE] ELSE g

IdsOf(docs) == {d["id"] : d \in Range(docs)}

\* POST/PUT: create the resources, insert them; on success call back with the
\* ids, on failure go on to the rollback
InsertResource(body, base_url, k) ==
    /\ Accepts
    /\ ir.pc = "idle"
    /\ LET resources == create_resources(body, base_url, UsedOids, now)
           sent == InsertIds(resources,
                             UsedOids \cup OidsOf(Range(resources)), now)
           r == BackendInsert(coll, sent, k)
       IN /\ Len(coll) < MaxDocs
          /\ Len(r.coll) <= MaxDocs
          /\ coll' = r.coll
          /\ greq' = Touch(greq, r.coll)
          /\ tomb' = tomb \ IdsOf(resources)
          /\ IF r.error = "None"
             THEN /\ ir' = Idle
                  /\ last' = [op |-> "insert_resource",
                              batch |-> BatchKeys(resources),
                              size |-> Len(resources),
                              result |-> [i \in DOMAIN sent |-> sent[i]["_id"]],
                              result_none |-> FALSE,
                              inserted |-> Len(resources),
                              error |-> NoError,
                              insert_error |-> "None", remove_error |-> "None"]
             ELSE /\ ir' = [pc |-> "rollback", resources |-> resources,
                            insert_error |-> r.error,
                            inserted |-> Len(r.coll) - Len(coll)]
                  /\ last' = NoStep
    /\ UNCHANGED <<now, dreq, ins, cbs, cur, srv, run, ps>>

\* the rollback's remove, and the callback with the error
Rollback(remove_fails) ==
    /\ Ready
    /\ ir.pc = "rollback"
    /\ LET remove_error == IF remove_fails THEN "remove failed" ELSE "None"
           c == IF remove_fails THEN coll
                ELSE collection_remove(coll, RollbackQuery(ir.resources))
       IN /\ coll' = c
          /\ greq' = Touch(greq, c)
          /\ last' = [op |-> "insert_resource",
                      batch |-> BatchKeys(ir.resources),
                      size |-> Len(ir.resources),
                      result |-> <<>>,
                      result_none |-> TRUE,
                      inserted |-> ir.inserted,
                      error |-> InsertError(ir.insert_error, remove_error),
                      insert_error |-> ir.insert_error,
                      remove_error |-> remove_error]
    /\ ir' = Idle
    /\ UNCHANGED <<now, dreq, tomb, ins, cbs, cur, srv, run, ps>>

\* the clock advances
Tick ==
    /\ Ready
    /\ now < MaxTime
    /\ now' = now + 1
    /\ UNCHANGED <<coll, ir, dreq, greq, last, tomb, ins, cbs, cur, srv, run, ps>>

\* the response of the step just taken has reached the client
Respond ==
    /\ last # NoStep
    /\ last' = NoStep
    /\ UNCHANGED <<coll, now, ir, dreq, greq, tomb, ins, cbs, cur, srv, run, ps>>

---------------------------------------------------------------------------
(* DELETE *)

Revisions(c, i) == {d \in Range(c) : d["id"] = i}

\* the latest revision of i: the one with the maximum ts
Latest(c, i) == CHOOSE d \in Revisions(c, i) :
                    \A e \in Revisions(c, i) : e["ts"] <= d["ts"]

IsDeleted(d) == "status" \in DOMAIN d /\ d["status"] = "DELETED"

LatestDeleted(c, i) == Revisions(c, i) # {} /\ IsDeleted(Latest(c, i))

\* a delete that only stamps the copy with the time
tombstone_active(doc, t) == Put(doc, "ts", t)

\* delete: deleted = copy.copy(response[0]) with status DELETED and ts now
tombstone(doc, t) == Put(Put(doc, "status", "DELETED"), "ts", t)

\* delete, up to the insert of the tombstone: find the revisions of res_id,
\* take the first one of the response
delete_find(r, res_id, find_fails) ==
    /\ dreq[r].pc = "idle"
    /\ LET response == Project(collection_find(coll, {[id |-> res_id]}))
           gone == LatestDeleted(coll, res_id)
       IN IF find_fails
          THEN /\ last' = [op |-> "delete", id |-> res_id, status |-> 500,
                           code |-> 500005, latest_deleted |-> gone]
               /\ dreq' = dreq
          ELSE IF Len(response) = 0
          THEN /\ last' = [op |-> "delete", id |-> res_id, status |-> 404,
                           code |-> 404002, latest_deleted |-> gone]
               /\ dreq' = dreq
          ELSE IF IsDeleted(response[1])
          THEN /\ last' = [op |-> "delete", id |-> res_id, status |-> 410,
                           code |-> 410001, latest_deleted |-> gone]
               /\ dreq' = dreq
          ELSE LET deleted == tombstone(response[1], now)
                   sent == InsertIds(<<deleted>>, UsedOids, now)
               IN /\ dreq' = [dreq EXCEPT ![r] =
                                 [pc |-> "insert", id |-> res_id,
                                  deleted |-> sent[1],
                                  latest_deleted |-> gone]]
                  /\ last' = NoStep
    /\ UNCHANGED <<coll, now, ir, greq, tomb, ins, cbs, cur, srv, run, ps>>

DeleteFind(r, res_id, find_fails) ==
    /\ Accepts
    /\ delete_find(r, res_id, find_fails)

\* delete, taken on while another DELETE waits for its insert: the
\* coroutine yields at the find, and the IOLoop starts the next request
DeleteFindBeside(r, res_id) ==
    /\ Ready
    /\ Pending < Cardinality(DelSlots)
    /\ delete_find(r, res_id, FALSE)

\* delete, the insert of the tombstone and the response
DeleteInsert(r, k) ==
    /\ Ready
    /\ dreq[r].pc = "insert"
    /\ Len(coll) < MaxDocs
    /\ LET res == BackendInsert(coll, <<dreq[r].deleted>>, k)
       IN /\ coll' = res.coll
          /\ greq' = Touch(greq, res.coll)
          /\ IF res.error # "None"
             THEN /\ last' = [op |-> "delete", id |-> dreq[r].id,
                              status |-> 500, code |-> 500006,
                              latest_deleted |-> dreq[r].latest_deleted]
                  /\ tomb' = tomb
             ELSE /\ last' = [op |-> "delete", id |-> dreq[r].id,
                              status |-> 200, code |-> 0,
                              latest_deleted |-> dreq[r].latest_deleted]
                  /\ tomb' = IF LatestDeleted(coll, dreq[r].id) THEN tomb
                             ELSE tomb \cup {dreq[r].id}
    /\ dreq' = [dreq EXCEPT ![r] = Idle]
    /\ UNCHANGED <<now, ir, ins, cbs, cur, srv, run, ps>>

---------------------------------------------------------------------------
(* GET of a single resource, no filter parameters *)

MaxOf(S) == CHOOSE m \in S : \A x \in S : x <= m

Restrict(f, S) == [k \in S |-> f[k]]

\* the field a '$a.b' path names in a document, if there is one
HasPath(d, a, b) == a \in DOMAIN d /\ b \in DOMAIN d[a]

\* {'$group': {'_id': {'_id': '$id', 'selfRef': '$selfRef'},
\*             'ts': {'$max': '$ts'}}}
GroupKey(d) == [_id |-> d["id"], selfRef |-> d["selfRef"]]

aggregate_ts(docs) ==
    {[_id |-> g, ts |-> MaxOf({d["ts"] : d \in {x \in docs : GroupKey(x) = g}})] :
        g \in {GroupKey(d) : d \in docs}}

\* {'$project': {'id': '$_id.id', 'ts': '$ts'}}: a path that names no field
\* yields no field
project_id_set(x) ==
    LET withTs == [k \in {"_id", "ts"} |-> x[k]]
    IN IF HasPath(x, "_id", "id") THEN Put(withTs, "id", x["_id"]["id"])
       ELSE withTs

\* {'$group': {'_id': None, 'set': {'$addToSet': {'id': '$id', 'ts': '$ts'}}}}
aggregate_id_set(docs) ==
    {Restrict(x, DOMAIN x \cap {"id", "ts"}) : x \in docs}

\* get_psjson: the pipeline over the documents the query {id: res_id} matches
ResolvedSet(c, res_id) ==
    aggregate_id_set({project_id_set(x) :
                         x \in aggregate_ts(Revisions(c, res_id))})

\* write_psjson with is_list False: the status and the documents written
write_psjson_single(docs, success_status) ==
    IF docs = <<>> THEN [status |-> 404, out |-> <<>>]
    ELSE IF IsDeleted(docs[1]) THEN [status |-> 410, out |-> <<>>]
    ELSE [status |-> success_status, out |-> <<docs[1]>>]

\* get_psjson up to the find: the aggregation
GetAggregate(res_id, aggregate_fails) ==
    /\ Accepts
    /\ greq.pc = "idle"
    /\ LET set == ResolvedSet(coll, res_id)
       IN IF aggregate_fails
          THEN /\ last' = [op |-> "get", id |-> res_id, status |-> 500,
                           out |-> <<>>, dirty |-> FALSE,
                           after_delete |-> res_id \in tomb]
               /\ greq' = greq
          ELSE IF set = {}
          THEN /\ last' = [op |-> "get", id |-> res_id, status |-> 404,
                           out |-> <<>>, dirty |-> FALSE,
                           after_delete |-> res_id \in tomb]
               /\ greq' = greq
          ELSE /\ greq' = [pc |-> "find", id |-> res_id, conds |-> set,
                           dirty |-> FALSE, after_delete |-> res_id \in tomb]
               /\ last' = NoStep
    /\ UNCHANGED <<coll, now, ir, dreq, tomb, ins, cbs, cur, srv, run, ps>>

\* get_psjson, write_psjson: the find of the resolved set and the response
GetFind ==
    /\ Ready
    /\ greq.pc = "find"
    /\ LET docs == Project(collection_find(coll, greq.conds))
           w == write_psjson_single(docs, 200)
       IN last' = [op |-> "get", id |-> greq.id, status |-> w.status,
                   out |-> w.out, dirty |-> greq.dirty,
                   after_delete |-> greq.after_delete]
    /\ greq' = Idle
    /\ UNCHANGED <<coll, now, ir, dreq, tomb, ins, cbs, cur, srv, run, ps>>

---------------------------------------------------------------------------
(* GET of a listing, with a base filter *)

\* the filter that matches every document: {}
MatchAll == [k \in {} |-> "ACTIVE"]

\* the base filters of the listings: none, or one field with its value
Filters == {MatchAll, [status |-> "ACTIVE"]} \cup {[id |-> i] : i \in Ids}

\* {'$match': query}
match(c, query) == {d \in Range(c) : Matches(d, query)}

\* get_psjson: the pipeline over the documents the base filter matches, and
\* 'if results[0]['set'] == [{}]: results[0]['set'] = []'
ResolvedList(c, query) ==
    LET set == aggregate_id_set({project_id_set(x) :
                                    x \in aggregate_ts(match(c, query))})
    IN IF set # {} /\ \A x \in set : DOMAIN x = {} THEN {} ELSE set

\* a list writer that answers 404 when the cursor returned nothing
write_psjson_list_strict(docs, success_status) ==
    [status |-> IF docs = <<>> THEN 404 ELSE success_status,
     out |-> SelectSeq(docs, LAMBDA d : ~IsDeleted(d))]

\* write_psjson with is_list True: the status and the documents written
write_psjson_list(docs, success_status) ==
    LET out == SelectSeq(docs, LAMBDA d : ~IsDeleted(d))
    IN [status |-> IF docs = <<>> \/ out # <<>> THEN success_status ELSE 200,
        out |-> out]

\* get_psjson of a listing up to the find: the aggregation
ListAggregate(query, aggregate_fails) ==
    /\ Accepts
    /\ greq.pc = "idle"
    /\ IF aggregate_fails
       THEN /\ last' = [op |-> "list", query |-> query, set |-> {},
                        status |-> 500, out |-> <<>>, find_failed |-> FALSE]
            /\ greq' = greq
       ELSE /\ greq' = [pc |-> "list_find", query |-> query,
                        conds |-> ResolvedList(coll, query)]
            /\ last' = NoStep
    /\ UNCHANGED <<coll, now, ir, dreq, tomb, ins, cbs, cur, srv, run, ps>>

\* get_psjson, write_psjson of a listing: the find of the resolved set, whose
\* failure the cursor's fetch_next does not report, and the response
ListFind(find_fails) ==
    /\ Ready
    /\ greq.pc = "list_find"
    /\ LET docs == IF find_fails THEN <<>>
                   ELSE Project(collection_find(coll, greq.conds))
           w == write_psjson_list(docs, 200)
       IN last' = [op |-> "list", query |-> greq.query, set |-> greq.conds,
                   status |-> w.status, out |-> w.out,
                   find_failed |-> find_fails]
    /\ greq' = Idle
    /\ UNCHANGED <<coll, now, ir, dreq, tomb, ins, cbs, cur, srv, run, ps>>

---------------------------------------------------------------------------

(* Store.insert and its callback *)

TsAbsent == 0 - 2

\* the documents a caller may hand to insert: id, ts and _id are optional,
\* and ts may be None
InsertItem(id, ts, oid) ==
    LET d0 == [status |-> "ACTIVE"]
        d1 == IF id = Absent THEN d0 ELSE Put(d0, "id", id)
        d2 == IF ts = TsAbsent THEN d1 ELSE Put(d1, "ts", ts)
    IN IF oid = Absent THEN d2 ELSE Put(d2, "_id", oid)

InsertItems == {InsertItem(id, ts, oid) : id \in {Absent, "a"},
                                          ts \in {TsAbsent, TsNone, 2},
                                          oid \in {Absent, ObjectId(MaxOid)}}

InsertLists == UNION {[1..n -> InsertItems] : n \in 1..MaxList}

\* what a callback receives as its result: None, one id, or a list of ids
None == [kind |-> "None", ids |-> <<>>]

\* an insert that always answers with a list
AlwaysList(object_ids, is_list) == [kind |-> "list", ids |-> object_ids]

\* _insert_callback: 'if not is_list: object_ids = object_ids[0]'
Shaped(object_ids, is_list) ==
    IF is_list THEN [kind |-> "list", ids |-> object_ids]
    ELSE [kind |-> "scalar", ids |-> <<object_ids[1]>>]

\* _insert_callback: the invocations of the caller's callback, in order.
\* The branch taken on an error does not return.
insert_callback(error, object_ids, is_list) ==
    (IF error # "None" THEN <<[result |-> None, error |-> error]>> ELSE <<>>)
    \o <<[result |-> Shaped(object_ids, is_list), error |-> error]>>

\* insert: the documents get their ts, _id and id, and go to the backend
Insert(data, is_list) ==
    /\ Ready
    /\ ins.pc = "idle"
    /\ Len(coll) + Len(data) <= MaxDocs
    /\ LET ldata == InsertIds(data, UsedOids \cup OidsOf(Range(data)), now)
       IN ins' = [pc |-> "sent", data |-> data, is_list |-> is_list,
                  ldata |-> ldata,
                  object_ids |-> [i \in DOMAIN ldata |-> ldata[i]["_id"]],
                  error |-> "None"]
    /\ cbs' = <<>>
    /\ UNCHANGED <<coll, now, ir, dreq, greq, last, tomb, cur, srv, run, ps>>

\* the backend's reply, which runs _insert_callback
InsertReply(k) ==
    /\ ins.pc = "sent"
    /\ k <= Len(ins.ldata)
    /\ LET r == BackendInsert(coll, ins.ldata, k)
       IN /\ coll' = r.coll
          /\ ins' = [ins EXCEPT !.pc = "done", !.error = r.error]
          /\ cbs' = insert_callback(r.error, ins.object_ids, ins.is_list)
    /\ UNCHANGED <<now, ir, dreq, greq, last, tomb, cur, srv, run, ps>>

\* the caller has handled the callback
InsertDone ==
    /\ ins.pc = "done"
    /\ ins' = Idle
    /\ cbs' = <<>>
    /\ UNCHANGED <<coll, now, ir, dreq, greq, last, tomb, cur, srv, run, ps>>

---------------------------------------------------------------------------
(* AsyncmongoDBCursor: fetch_next and next_object *)

\* the result sets a query may have
ResultDocs == {[id |-> i] : i \in Ids}

ResultSets == UNION {[1..n -> ResultDocs] : n \in 0..MaxResults}

buffer_size(c) == IF c.data_none THEN 0 ELSE Len(c.data)

\* a get_result that answers True whenever there is no error
get_result_ready(error, size) == IF error # "None" THEN "raise" ELSE "True"

\* _AsyncmongoFetchNext.get_result
get_result(error, size) ==
    IF error # "None" THEN "raise"
    ELSE IF size > 0 THEN "True" ELSE "False"

\* the loop 'while (yield cursor.fetch_next)' goes on with the result
Resume(result) ==
    IF result = "raise" THEN "raised"
    ELSE IF result = "True" THEN "next" ELSE "done"

\* _find_callback: the cursor after the reply to find
find_callback(c, result, error, alive) ==
    IF error # "None"
    THEN [c EXCEPT !.data = <<>>, !.data_none = TRUE, !.error = error,
                   !.has_results = TRUE, !.alive = alive]
    ELSE [c EXCEPT !.data = result, !.data_none = FALSE, !.error = error,
                   !.has_results = TRUE, !.alive = alive]

\* _get_more_callback: the cursor after the reply to get_more
get_more_callback(c, result, error, alive) ==
    [c EXCEPT !.data = (IF c.data_none THEN <<>> ELSE c.data) \o result,
              !.data_none = FALSE, !.error = error, !.has_results = TRUE,
              !.alive = alive]

\* dblayer.find(query): a cursor that has not asked the backend yet, and the
\* caller entering its loop
Find(docs) ==
    /\ cur.pc = "idle"
    /\ cur' = [pc |-> "open", data |-> <<>>, data_none |-> TRUE,
               error |-> "None", has_results |-> FALSE, alive |-> FALSE]
    /\ srv' = [pc |-> "idle", docs |-> docs]
    /\ run' = [pc |-> "loop", seen |-> <<>>, fn_error |-> "None"]
    /\ UNCHANGED <<coll, now, ir, dreq, greq, last, tomb, ins, cbs, ps>>

\* yield cursor.fetch_next: _AsyncmongoFetchNext.start, and get_result when
\* the yield point is ready at once
FetchNext ==
    /\ run.pc = "loop"
    /\ IF ~cur.has_results
       THEN /\ srv' = [srv EXCEPT !.pc = "find"]
            /\ run' = [run EXCEPT !.pc = "wait", !.fn_error = "None"]
       ELSE IF buffer_size(cur) = 0 /\ cur.alive
       THEN /\ srv' = [srv EXCEPT !.pc = "more"]
            /\ run' = [run EXCEPT !.pc = "wait", !.fn_error = "None"]
       ELSE /\ srv' = srv
            /\ run' = [run EXCEPT
                         !.pc = Resume(get_result("None", buffer_size(cur))),
                         !.fn_error = "None"]
    /\ UNCHANGED <<coll, now, ir, dreq, greq, last, tomb, ins, cbs, cur, ps>>

\* the backend's reply to find: the first n documents, or an error;
\* _find_callback, then set_result() and get_result
FindReply(n, fails, alive) ==
    /\ srv.pc = "find"
    /\ n <= Len(srv.docs)
    /\ LET result == IF fails THEN <<>> ELSE SubSeq(srv.docs, 1, n)
           error == IF fails THEN "find failed" ELSE "None"
           c == find_callback(cur, result, error, alive)
       IN /\ cur' = c
          /\ srv' = [pc |-> "idle",
                     docs |-> SubSeq(srv.docs, Len(result) + 1, Len(srv.docs))]
          /\ run' = [run EXCEPT
                       !.pc = Resume(get_result("None", buffer_size(c))),
                       !.fn_error = "None"]
    /\ UNCHANGED <<coll, now, ir, dreq, greq, last, tomb, ins, cbs, ps>>

\* the backend's reply to get_more: the next n documents, or an error;
\* _get_more_callback, then set_result() and get_result
GetMoreReply(n, fails, alive) ==
    /\ srv.pc = "more"
    /\ n <= Len(srv.docs)
    /\ LET result == IF fails THEN <<>> ELSE SubSeq(srv.docs, 1, n)
           error == IF fails THEN "get_more failed" ELSE "None"
           c == get_more_callback(cur, result, error, alive)
       IN /\ cur' = c
          /\ srv' = [pc |-> "idle",
                     docs |-> SubSeq(srv.docs, Len(result) + 1, Len(srv.docs))]
          /\ run' = [run EXCEPT
                       !.pc = Resume(get_result("None", buffer_size(c))),
                       !.fn_error = "None"]
    /\ UNCHANGED <<coll, now, ir, dreq, greq, last, tomb, ins, cbs, ps>>

\* a next_object that takes the newest buffered document
next_object_newest(c) ==
    IF buffer_size(c) = 0 THEN [raised |-> TRUE, cur |-> c]
    ELSE [raised |-> FALSE, doc |-> c.data[Len(c.data)],
          cur |-> [c EXCEPT !.data = SubSeq(c.data, 1, Len(c.data) - 1)]]

\* next_object: StopIteration on an empty buffer, else _data.popleft()
next_object(c) ==
    IF buffer_size(c) = 0 THEN [raised |-> TRUE, cur |-> c]
    ELSE [raised |-> FALSE, doc |-> Head(c.data),
          cur |-> [c EXCEPT !.data = Tail(c.data)]]

\* doc = cursor.next_object() in the loop
NextObject ==
    /\ run.pc = "next"
    /\ LET r == next_object(cur)
       IN /\ cur' = r.cur
          /\ run' = IF r.raised THEN [run EXCEPT !.pc = "raised"]
                    ELSE [run EXCEPT !.pc = "loop",
                                     !.seen = Append(run.seen, r.doc)]
    /\ UNCHANGED <<coll, now, ir, dreq, greq, last, tomb, ins, cbs, srv, ps>>

\* a caller that calls next_object whenever it runs, fetched or not: the
\* call, with the cursor as it was before it
CallNextObject ==
    /\ run.pc \in {"loop", "next"}
    /\ LET r == next_object(cur)
       IN /\ cur' = r.cur
          /\ run' = [pc |-> "called", seen |-> run.seen,
                     fn_error |-> run.fn_error, before |-> cur,
                     raised |-> r.raised,
                     ret |-> IF r.raised THEN <<>> ELSE <<r.doc>>]
    /\ UNCHANGED <<coll, now, ir, dreq, greq, last, tomb, ins, cbs, srv, ps>>

\* the caller goes on after the call; a StopIteration ends its loop
ReturnNextObject ==
    /\ run.pc = "called"
    /\ run' = [pc |-> IF run.raised THEN "done" ELSE "loop",
               seen |-> run.seen \o run.ret, fn_error |-> run.fn_error]
    /\ UNCHANGED <<coll, now, ir, dreq, greq, last, tomb, ins, cbs, cur, srv, ps>>

\* the loop is over, the cursor is dropped
CursorDone ==
    /\ run.pc \in {"done", "raised"}
    /\ cur' = Idle
    /\ srv' = Idle
    /\ run' = Idle
    /\ UNCHANGED <<coll, now, ir, dreq, greq, last, tomb, ins, cbs, ps>>

---------------------------------------------------------------------------
(* AsyncmongoDBCursor: each, to_list and tail *)

\* what the caller's callback answers: True to go on, and from its
\* stop_at-th invocation on its stop value (None or False); stop_at = 0 is a
\* callback that always goes on
Answer(r, n) == IF r.stop_at # 0 /\ n >= r.stop_at THEN r.stop_val ELSE "True"

\* the caller's callback is invoked with (doc, error); doc is <<>> for None
user_callback(st, doc, error) ==
    LET r == st.run
        n == Len(r.calls) + 1
        a == Answer(r, n)
    IN [st EXCEPT !.run = [r EXCEPT
                             !.calls = Append(r.calls, [doc |-> doc, error |-> error]),
                             !.stopped_at = IF r.stopped_at = 0 /\ a # "True"
                                            THEN n ELSE r.stopped_at],
                  !.ret = a]

\* native_cursor.kill()
kill(st) == [st EXCEPT !.cur = [st.cur EXCEPT !.alive = FALSE]]

\* loop.add_timeout(time.time() + 0.5, partial(cursor.tail, callback))
add_timeout(st) == [st EXCEPT !.run = [st.run EXCEPT !.timers = st.run.timers + 1]]

\* _tail_got_more(cursor, callback, result, error), the callback tail gives
\* to each: its answer to each is False when the subscriber stops, and None
\* (no return statement) otherwise
tail_got_more(st, doc, error) ==
    LET s1 == IF error # "None" THEN user_callback(kill(st), <<>>, error)
              ELSE IF doc # <<>> THEN user_callback(st, doc, "None")
              ELSE st
        stop == error = "None" /\ doc # <<>> /\ s1.ret = "None"
    IN IF stop THEN [kill(s1) EXCEPT !.ret = "False"]
       ELSE IF ~s1.cur.alive THEN [add_timeout(s1) EXCEPT !.ret = "None"]
       ELSE [s1 EXCEPT !.ret = "None"]

\* the callback each was given: the caller's, or tail's _tail_got_more
callback(st, doc, error) ==
    IF st.run.op = "tail" THEN tail_got_more(st, doc, error)
    ELSE user_callback(st, doc, error)

\* each: 'if callback(datum, self._error) is None: return'
stops_each(ret) == ret = "None"

RECURSIVE each_loop(_, _)
\* each: 'for datum in data', the buffer being left as it is; .ret is
\* "return" when the loop returned from each
each_loop(st, data) ==
    IF data = <<>> THEN [st EXCEPT !.ret = "fell"]
    ELSE LET s1 == callback(st, <<Head(data)>>, st.cur.error)
         IN IF stops_each(s1.ret) THEN [s1 EXCEPT !.ret = "return"]
            ELSE each_loop(s1, Tail(data))

\* the cursor asks the backend: find or get_more
request(st, what) ==
    [st EXCEPT !.req = what,
               !.run = [st.run EXCEPT
                          !.fetch_after_stop =
                              st.run.fetch_after_stop \/ st.run.stopped_at # 0]]

\* each(callback), entered by the caller, by a reply or by tail
each(st) ==
    IF ~st.cur.has_results THEN request(st, "find")
    ELSE LET data == IF st.cur.data_none THEN <<>> ELSE st.cur.data
             s1 == each_loop(st, data)
         IN IF s1.ret = "return" THEN s1
            ELSE IF Len(data) = 0 /\ s1.cur.alive THEN request(s1, "more")
            ELSE callback(s1, <<>>, "None")

Min(a, b) == IF a < b THEN a ELSE b

\* length=None
LengthNone == 0 - 1

\* to_list: 'if length is None: length = len(data)'
length_of(st, data) ==
    IF st.run.length = LengthNone THEN Len(data) ELSE st.run.length

\* a to_list that leaves the returned documents in the buffer
to_list_keeping(st) ==
    IF ~st.cur.has_results THEN request(st, "find")
    ELSE LET data == IF st.cur.data_none THEN <<>> ELSE st.cur.data
             length == length_of(st, data)
         IN IF Len(data) < length /\ st.cur.alive
            THEN request(st, "more")
            ELSE user_callback(st, SubSeq(data, 1, Min(length, Len(data))),
                               st.cur.error)

\* to_list(length, callback), entered by the caller or by a reply
to_list(st) ==
    IF ~st.cur.has_results THEN request(st, "find")
    ELSE LET data == IF st.cur.data_none THEN <<>> ELSE st.cur.data
             length == length_of(st, data)
             n == Min(length, Len(data))
         IN IF Len(data) < length /\ st.cur.alive
            THEN request(st, "more")
            ELSE user_callback(
                     [st EXCEPT !.cur = IF st.cur.data_none THEN st.cur
                                        ELSE [st.cur EXCEPT
                                                !.data = SubSeq(data, n + 1, Len(data))]],
                     SubSeq(data, 1, n), st.cur.error)

\* the partial a reply calls back: each or to_list again
continue(st) == IF st.run.op = "to_list" THEN to_list(st) ELSE each(st)

\* the step's outcome goes to the variables
Settle(st, docs) ==
    /\ cur' = st.cur
    /\ srv' = [pc |-> IF st.req = "none" THEN "idle" ELSE st.req, docs |-> docs]
    /\ run' = [st.run EXCEPT !.pc = IF st.req = "none" THEN "returned" ELSE "wait"]
    /\ UNCHANGED <<coll, now, ir, dreq, greq, last, tomb, ins, cbs, ps>>

NewCursor == [pc |-> "open", data |-> <<>>, data_none |-> TRUE,
              error |-> "None", has_results |-> FALSE, alive |-> FALSE]

NewRun(op, docs, stop_at, stop_val, length) ==
    [pc |-> "wait", op |-> op, calls |-> <<>>, stop_at |-> stop_at,
     stop_val |-> stop_val, stopped_at |-> 0, length |-> length, timers |-> 0,
     fetch_after_stop |-> FALSE, result |-> docs, clean |-> TRUE, finds |-> 0, got_more |-> FALSE,
     retailed |-> FALSE]

\* cursor = dblayer.find(query); cursor.each(callback)
Each(docs, stop_at, stop_val) ==
    /\ cur.pc = "idle"
    /\ Settle(each([cur |-> NewCursor, req |-> "none", ret |-> "None",
                    run |-> NewRun("each", docs, stop_at, stop_val, 0)]), docs)

\* cursor = dblayer.find(query); cursor.to_list(length, callback)
ToList(docs, length) ==
    /\ cur.pc = "idle"
    /\ Settle(to_list([cur |-> NewCursor, req |-> "none", ret |-> "None",
                       run |-> NewRun("to_list", docs, 0, "None", length)]), docs)

\* the backend's reply to find or get_more, for each, to_list and tail:
\* _find_callback or _get_more_callback, then the partial it was given
CallbackReply(n, fails, alive) ==
    /\ run.pc = "wait"
    /\ srv.pc \in {"find", "more"}
    /\ n <= Len(srv.docs)
    /\ LET result == IF fails THEN <<>> ELSE SubSeq(srv.docs, 1, n)
           rest == SubSeq(srv.docs, Len(result) + 1, Len(srv.docs))
           error == IF fails THEN "backend failed" ELSE "None"
           c == IF srv.pc = "find" THEN find_callback(cur, result, error, alive)
                ELSE get_more_callback(cur, result, error, alive)
           r == [run EXCEPT !.clean = run.clean /\ ~fails /\ (alive <=> rest # <<>>),
                            !.finds = run.finds + (IF srv.pc = "find" THEN 1 ELSE 0),
                            !.got_more = run.got_more \/ srv.pc = "more"]
       IN Settle(continue([cur |-> c, req |-> "none", ret |-> "None", run |-> r]),
                 rest)

\* cursor = dblayer.find(query); cursor.tail(callback): the tailing flags
\* are set on the find call and each is entered with _tail_got_more
TailCursor(docs, stop_at) ==
    /\ cur.pc = "idle"
    /\ Settle(each([cur |-> NewCursor, req |-> "none", ret |-> "None",
                    run |-> NewRun("tail", docs, stop_at, "None", 0)]), docs)

\* the timeout _tail_got_more scheduled fires: cursor.tail(callback) again,
\* on the same cursor object
TailTimer ==
    /\ run.pc = "returned"
    /\ run.op = "tail"
    /\ run.timers > 0
    /\ Len(run.calls) < MaxCalls
    /\ Settle(each([cur |-> cur, req |-> "none", ret |-> "None",
                    run |-> [run EXCEPT !.timers = run.timers - 1,
                                        !.retailed = TRUE]]), srv.docs)

\* a document matching the query is appended to the capped collection while
\* the subscription lasts
LogAppend(doc) ==
    /\ run.pc \in {"wait", "returned"}
    /\ run.op = "tail"
    /\ Len(run.result) < MaxResults
    /\ srv' = [srv EXCEPT !.docs = Append(srv.docs, doc)]
    /\ run' = [run EXCEPT !.result = Append(run.result, doc)]
    /\ UNCHANGED <<coll, now, ir, dreq, greq, last, tomb, ins, cbs, cur, ps>>

\* the operation has returned and nothing is scheduled: the cursor is dropped
CallbackDone ==
    /\ run.pc = "returned"
    /\ run.timers = 0
    /\ cur' = Idle
    /\ srv' = Idle
    /\ run' = Idle
    /\ UNCHANGED <<coll, now, ir, dreq, greq, last, tomb, ins, cbs, ps>>

---------------------------------------------------------------------------
(* write_psjson over the cursor *)

\* the documents a cursor hands to the writer: live or DELETED revisions
WriterDocs == {[id |-> i, status |-> st] : i \in Ids, st \in {"ON", "DELETED"}}

WriterSets == UNION {[1..n -> WriterDocs] : n \in 0..MaxResults}

\* the calls of write_psjson in the handlers: get_psjson (list or single,
\* 200, no Location) and the POST and PUT responses (single, 201, Location);
\* none passes include_deleted or full_representation
WriterCalls ==
    {[success_status |-> 200, is_list |-> l, show_location |-> FALSE,
      include_deleted |-> FALSE, full_representation |-> TRUE] : l \in BOOLEAN}
    \cup {[success_status |-> 201, is_list |-> FALSE, show_location |-> TRUE,
           include_deleted |-> FALSE, full_representation |-> TRUE]}

\* handler.write(chunk)
write(r, chunk) == [r EXCEPT !.out = Append(r.out, chunk)]

\* write_header(status): set_status and the Content-Type header
write_header(r, status) ==
    [r EXCEPT !.status = status, !.content_type = TRUE]

\* a writer that separates every list document from what precedes it
separate_always(r) ==
    IF r.first_list
    THEN write(write_header([r EXCEPT !.first_list = FALSE],
                            r.call.success_status), [t |-> "sep"])
    ELSE IF r.call.is_list THEN write(r, [t |-> "sep"])
    ELSE r

\* 'if first_list is True: ... elif is_list is True: handler.write(",\n")'
separate(r) ==
    IF r.first_list
    THEN write_header([r EXCEPT !.first_list = FALSE], r.call.success_status)
    ELSE IF r.call.is_list THEN write(r, [t |-> "sep"])
    ELSE r

\* a writer that never leaves the loop after a document
after_write_on(is_list) == "loop"

\* 'if is_list is False: break'
after_write(is_list) == IF is_list THEN "loop" ELSE "done"

\* the body of the loop of write_psjson for the document res
write_doc(r, res) ==
    LET c == r.call
        r1 == [r EXCEPT !.found_one = TRUE, !.seen = Append(r.seen, res)]
    IN IF IsDeleted(res) /\ ~c.include_deleted
       THEN IF c.is_list THEN [r1 EXCEPT !.pc = "loop"]
            ELSE [write_header(r1, 410) EXCEPT !.pc = "done"]
       ELSE LET r2 == IF ~c.is_list /\ c.show_location
                      THEN [write_header(r1, c.success_status) EXCEPT
                              !.location = "selfRef" \in DOMAIN res]
                      ELSE r1
                r3 == separate(r2)
                r4 == write(r3, [t |-> IF c.full_representation
                                       THEN "doc" ELSE "href",
                                 doc |-> res])
            IN [r4 EXCEPT !.pc = after_write(c.is_list)]

\* write_psjson after the loop
write_end(r) ==
    LET c == r.call
        r1 == IF ~r.found_one
              THEN write_header(r, IF c.is_list THEN c.success_status ELSE 404)
              ELSE r
        r2 == IF c.is_list THEN write(r1, [t |-> "close"]) ELSE r1
    IN [write(r2, [t |-> "nl"]) EXCEPT !.pc = "finished"]

\* write_psjson up to its loop: the cursor, and the opening of a list
WritePsjson(docs, c) ==
    /\ cur.pc = "idle"
    /\ cur' = NewCursor
    /\ srv' = [pc |-> "idle", docs |-> docs]
    /\ run' = [pc |-> "loop", fn_error |-> "None", op |-> "write", call |-> c,
               seen |-> <<>>, out |-> IF c.is_list THEN <<[t |-> "open"]>> ELSE <<>>,
               first_list |-> c.is_list, found_one |-> FALSE, status |-> 200,
               content_type |-> FALSE, location |-> FALSE]
    /\ UNCHANGED <<coll, now, ir, dreq, greq, last, tomb, ins, cbs, ps>>

\* one turn of the loop: next_object and the writes for the document
WriteNext ==
    /\ run.pc = "next"
    /\ "call" \in DOMAIN run
    /\ LET r == next_object(cur)
       IN /\ cur' = r.cur
          /\ run' = IF r.raised THEN [run EXCEPT !.pc = "raised"]
                    ELSE write_doc(run, r.doc)
    /\ UNCHANGED <<coll, now, ir, dreq, greq, last, tomb, ins, cbs, srv, ps>>

\* the loop is left: the status of an empty result, the closing of a list,
\* the final newline and callback(None, error=None)
WriteEnd ==
    /\ run.pc = "done"
    /\ "call" \in DOMAIN run
    /\ run' = write_end(run)
    /\ UNCHANGED <<coll, now, ir, dreq, greq, last, tomb, ins, cbs, cur, srv, ps>>

\* the response is finished and the cursor dropped
WriteDone ==
    /\ run.pc \in {"finished", "raised"}
    /\ "call" \in DOMAIN run
    /\ cur' = Idle
    /\ srv' = Idle
    /\ run' = Idle
    /\ UNCHANGED <<coll, now, ir, dreq, greq, last, tomb, ins, cbs, ps>>

---------------------------------------------------------------------------
(* GET in keep-alive mode: _find, _get_on_response, _get_more *)

\* _remove_cursor: del self._cursor
remove_cursor(h) == [h EXCEPT !.has_cursor = FALSE]

\* self.finish()
finish(h) == [h EXCEPT !.pc = "finished"]

\* cursor.get_more(callback): the request for the next batch leaves
fetch(h) == [h EXCEPT !.pc = "fetch",
                       !.fetch_closed = h.fetch_closed \/ ~h.conn]

\* the text written, piece by piece: brackets, separators and documents
Open == [t |-> "["]

Sep == [t |-> ","]

Close == [t |-> "]"]

RECURSIVE Separated(_)
Separated(docs) ==
    IF docs = <<>> THEN <<>>
    ELSE IF Len(docs) = 1 THEN docs
    ELSE <<docs[1], Sep>> \o Separated(Tail(docs))

\* dumps_mongo(response) of a list of documents
dumps_mongo(response) == <<Open>> \o Separated(response) \o <<Close>>

RECURSIVE lstrip_open(_)
\* json_response.lstrip("[")
lstrip_open(json) ==
    IF json # <<>> /\ Head(json) = Open THEN lstrip_open(Tail(json)) ELSE json

RECURSIVE rstrip_close(_)
\* json_response.rstrip("]")
rstrip_close(json) ==
    IF json # <<>> /\ json[Len(json)] = Close
    THEN rstrip_close(SubSeq(json, 1, Len(json) - 1))
    ELSE json

\* _get_on_response with is_list True: what self.write is given for a batch
json_response(new, response, last_batch) ==
    LET dumped == dumps_mongo(response)
        joined == IF ~new /\ response # <<>>
                  THEN <<Sep>> \o lstrip_open(dumped) ELSE dumped
    IN IF ~last_batch THEN rstrip_close(joined)
       ELSE IF response = <<>> THEN <<Close>>
       ELSE joined \o <<Close>>

RECURSIVE get_on_response(_, _, _, _)
RECURSIVE get_more_unchecked(_)
RECURSIVE get_more(_)

\* a _get_more that does not look at the connection
get_more_unchecked(h) ==
    IF h.alive THEN fetch(h)
    ELSE get_on_response(h, <<>>, "None", TRUE)

\* _get_more(cursor, callback): the connection is looked at first; then the
\* next batch is asked for, or the response is ended with an empty last batch
get_more(h) ==
    IF ~h.conn
    THEN finish(remove_cursor([h EXCEPT !.boundary_closed = TRUE]))
    ELSE IF h.alive THEN fetch(h)
    ELSE get_on_response(h, <<>>, "None", TRUE)

\* _get_on_response(response, error, new, is_list=True, last_batch)
get_on_response(h, response, error, last_batch) ==
    IF error # "None" THEN finish([h EXCEPT !.status = 500])
    ELSE IF ~h.has_cursor THEN [h EXCEPT !.pc = "raised"]
    ELSE IF ~h.new /\ response = <<>> /\ h.keep_alive /\ ~last_batch
    THEN [h EXCEPT !.pc = "scheduled"]
    ELSE LET h1 == [h EXCEPT !.out = h.out \o response, !.new = FALSE,
                             !.closed_list = last_batch,
                             !.text = h.text \o json_response(h.new, response,
                                                              last_batch)]
         IN IF last_batch THEN finish(remove_cursor(h1))
            ELSE get_more(h1)

\* GET with Connection: keep-alive or without: _find issues the find, with
\* _get_on_response(new=True, is_list=True) as its callback
KeepAliveGet(docs, keep_alive) ==
    /\ greq.pc = "idle"
    /\ cur.pc = "idle"
    /\ greq' = [pc |-> "fetch", conn |-> TRUE, has_cursor |-> TRUE,
                alive |-> TRUE, keep_alive |-> keep_alive, new |-> TRUE,
                status |-> 200, out |-> <<>>, text |-> <<>>,
                closed_list |-> FALSE,
                fetch_closed |-> FALSE, boundary_closed |-> FALSE]
    /\ srv' = [pc |-> "find", docs |-> docs]
    /\ UNCHANGED <<coll, now, ir, dreq, last, tomb, ins, cbs, cur, run, ps>>

\* the backend answers the find or the get_more with the next n documents,
\* or with an error: _get_on_response
KeepAliveReply(n, fails, alive) ==
    /\ greq.pc = "fetch"
    /\ n <= Len(srv.docs)
    /\ Len(greq.text) <= MaxText
    /\ LET response == IF fails THEN <<>> ELSE SubSeq(srv.docs, 1, n)
           error == IF fails THEN "backend failed" ELSE "None"
           h == get_on_response([greq EXCEPT !.alive = alive], response, error,
                                FALSE)
       IN /\ greq' = h
          /\ srv' = [pc |-> IF h.pc = "fetch" THEN "more" ELSE "idle",
                     docs |-> SubSeq(srv.docs, Len(response) + 1,
                                     Len(srv.docs))]
    /\ UNCHANGED <<coll, now, ir, dreq, last, tomb, ins, cbs, cur, run, ps>>

\* the callback that IOLoop.add_callback scheduled runs: _get_more
KeepAlivePoll ==
    /\ greq.pc = "scheduled"
    /\ LET h == get_more(greq)
       IN /\ greq' = h
          /\ srv' = [srv EXCEPT !.pc = IF h.pc = "fetch" THEN "more" ELSE "idle"]
    /\ UNCHANGED <<coll, now, ir, dreq, last, tomb, ins, cbs, cur, run, ps>>

\* the client closes the connection: on_connection_close
OnConnectionClose ==
    /\ greq.pc \in {"fetch", "scheduled"}
    /\ greq.conn
    /\ greq' = remove_cursor([greq EXCEPT !.conn = FALSE])
    /\ UNCHANGED <<coll, now, ir, dreq, last, tomb, ins, cbs, cur, srv, run, ps>>

\* the request is over
KeepAliveDone ==
    /\ greq.pc \in {"finished", "raised"}
    /\ "conn" \in DOMAIN greq
    /\ greq' = Idle
    /\ srv' = Idle
    /\ UNCHANGED <<coll, now, ir, dreq, last, tomb, ins, cbs, cur, run, ps>>

---------------------------------------------------------------------------
(* GET arguments: _parse_get_arguments *)
(* A string is the sequence of its characters. *)

StartsWith(s, prefix) ==
    Len(prefix) <= Len(s) /\ SubSeq(s, 1, Len(prefix)) = prefix

\* the places where sep occurs in s
Occurrences(s, sep) ==
    {i \in 1..(Len(s) - Len(sep) + 1) : SubSeq(s, i, i + Len(sep) - 1) = sep}

RECURSIVE split(_, _)
\* s.split(sep)
split(s, sep) ==
    IF Occurrences(s, sep) = {} THEN <<s>>
    ELSE LET i == CHOOSE j \in Occurrences(s, sep) :
                      \A m \in Occurrences(s, sep) : j <= m
         IN <<SubSeq(s, 1, i - 1)>>
                \o split(SubSeq(s, i + Len(sep), Len(s)), sep)

\* s.split(sep, 1)
split_once(s, sep) ==
    IF Occurrences(s, sep) = {} THEN <<s>>
    ELSE LET i == CHOOSE j \in Occurrences(s, sep) :
                      \A m \in Occurrences(s, sep) : j <= m
         IN <<SubSeq(s, 1, i - 1), SubSeq(s, i + Len(sep), Len(s))>>

RECURSIVE join(_, _)
\* sep.join(parts)
join(parts, sep) ==
    IF parts = <<>> THEN <<>>
    ELSE IF Len(parts) = 1 THEN parts[1]
    ELSE parts[1] \o sep \o join(Tail(parts), sep)

\* a strip that removes the prefix once, as a whole
strip_prefix(s, prefix) ==
    IF StartsWith(s, prefix) THEN SubSeq(s, Len(prefix) + 1, Len(s)) ELSE s

RECURSIVE lstrip(_, _)
\* s.lstrip(chars): leading characters are removed while they occur in chars
lstrip(s, chars) ==
    IF s # <<>> /\ Head(s) \in Range(chars) THEN lstrip(Tail(s), chars) ELSE s

Digits == {"0", "1", "5"}

DigitValue(c) == IF c = "0" THEN 0 ELSE IF c = "1" THEN 1 ELSE 5

IsDigits(s) == s # <<>> /\ \A i \in 1..Len(s) : s[i] \in Digits

RECURSIVE Decimal(_)
\* the number a string of digits writes
Decimal(s) ==
    IF s = <<>> THEN 0
    ELSE 10 * Decimal(SubSeq(s, 1, Len(s) - 1)) + DigitValue(s[Len(s)])

\* what compiling a value yields: a converted value, a range operator, a
\* membership, or the HTTPError raised
Err400 == [k |-> "err", status |-> 400]

IsErr(v) == v.k = "err"

Str(s) == [k |-> "str", s |-> s]

S_integer == <<"i", "n", "t", "e", "g", "e", "r">>
S_number == <<"n", "u", "m", "b", "e", "r">>
S_string == <<"s", "t", "r", "i", "n", "g">>
S_boolean == <<"b", "o", "o", "l", "e", "a", "n">>
S_lt == <<"l", "t">>
S_lte == <<"l", "t", "e">>
S_gt == <<"g", "t">>
S_gte == <<"g", "t", "e">>
S_ts == <<"t", "s">>
S_ttl == <<"t", "t", "l">>
S_fields == <<"f", "i", "e", "l", "d", "s">>
S_limit == <<"l", "i", "m", "i", "t">>
S_id == <<"i", "d">>
S_true == <<"t", "r", "u", "e">>
S_false == <<"f", "a", "l", "s", "e">>

\* convert_value_type(key, value, val_type), on strings of digits and
\* lower-case letters: int and float take the strings of digits, the
\* booleans are true, false, 1 and 0
convert_value_type(value, val_type) ==
    IF val_type = S_integer
    THEN IF IsDigits(value) THEN [k |-> "int", i |-> Decimal(value)] ELSE Err400
    ELSE IF val_type = S_number
    THEN IF IsDigits(value) THEN [k |-> "num", n |-> Decimal(value)] ELSE Err400
    ELSE IF val_type = S_string
    THEN Str(value)
    ELSE IF val_type = S_boolean
    THEN IF value \in {S_true, <<"1">>} THEN [k |-> "bool", b |-> TRUE]
         ELSE IF value \in {S_false, <<"0">>} THEN [k |-> "bool", b |-> FALSE]
         ELSE Err400
    ELSE Err400

\* operators = ["lt", "lte", "gt", "gte"]
operators == <<S_lt, S_lte, S_gt, S_gte>>

\* value_types = ["integer", "number", "string", "boolean"]
value_types == <<S_integer, S_number, S_string, S_boolean>>

\* the name of a range operator, as the key '$' + op
OpName(op) ==
    IF op = S_lt THEN "lt" ELSE IF op = S_lte THEN "lte"
    ELSE IF op = S_gt THEN "gt" ELSE "gte"

\* the first element of a list that the value starts with, followed by mark
FirstPrefix(value, list, mark) ==
    LET hits == {i \in 1..Len(list) : StartsWith(value, list[i] \o mark)}
    IN IF hits = {} THEN 0
       ELSE CHOOSE i \in hits : \A j \in hits : i <= j

\* process_value: value.lstrip(op + "=")
rest(value, op) == lstrip(value, op \o <<"=">>)

\* process_value: value.split(t + ":")[1]
typed(value, t) == split(value, t \o <<":">>)[2]

\* a compiler for which no field is numeric by its name
NumericKeysNone == {}

\* the fields whose values are numbers when no type is given
NumericKeys == {S_ts, S_ttl}

In(vals) ==
    IF \E i \in 1..Len(vals) : IsErr(vals[i]) THEN Err400
    ELSE [k |-> "in", vals |-> vals]

RECURSIVE process_value(_, _)
\* process_value(key, value), process_in_query(key, values)[key] included
process_value(key, value) ==
    LET in_split == split(value, <<",">>)
        op == FirstPrefix(value, operators, <<"=">>)
        t == FirstPrefix(value, value_types, <<":">>)
    IN IF Len(in_split) > 1
       THEN In([i \in 1..Len(in_split) |-> process_value(key, in_split[i])])
       ELSE IF op # 0
       THEN LET arg == process_value(key, rest(value, operators[op]))
            IN IF IsErr(arg) THEN Err400
               ELSE [k |-> "op", op |-> OpName(operators[op]), arg |-> arg]
       ELSE IF t # 0
       THEN convert_value_type(typed(value, value_types[t]), value_types[t])
       ELSE IF key \in NumericKeys
       THEN convert_value_type(value, S_number)
       ELSE Str(value)

\* {key: value}
Field(key, val) ==
    IF IsErr(val) THEN Err400 ELSE [k |-> "field", field |-> key, val |-> val]

\* {"$or": [...]}, {"$and": [...]}
Combine(kind, preds) ==
    IF \E i \in 1..Len(preds) : IsErr(preds[i]) THEN Err400
    ELSE [k |-> kind, preds |-> preds]

\* process_in_query(key, values)
process_in_query(key, values) ==
    Field(key, In([i \in 1..Len(values) |-> process_value(key, values[i])]))

\* an alternative of an OR query after the first: field=value
or_alternative(val) ==
    LET keys_split == split_once(val, <<"=">>)
    IN IF Len(keys_split) # 2 THEN Err400
       ELSE Field(keys_split[1], process_value(keys_split[1], keys_split[2]))

\* a process_or_query that compiles an alternative without a field name
\* against the parameter's own field
process_or_query_lenient(key, values) ==
    Combine("or", [i \in 1..Len(values) |->
                      IF i = 1 \/ Occurrences(values[i], <<"=">>) = {}
                      THEN Field(key, process_value(key, values[i]))
                      ELSE or_alternative(values[i])])

\* process_or_query(key, values): the first alternative goes with the
\* parameter's field, every other one must name its field
process_or_query(key, values) ==
    Combine("or", [i \in 1..Len(values) |->
                      IF i = 1 THEN Field(key, process_value(key, values[1]))
                      ELSE or_alternative(values[i])])

\* a compiler that looks for ',' before '|'
process_raw_comma_first(key, val) ==
    LET split_in == split(val, <<",">>)
    IN IF Len(split_in) > 1 THEN process_in_query(key, split_in)
       ELSE IF Len(split(val, <<"|">>)) > 1
       THEN process_or_query(key, split(val, <<"|">>))
       ELSE Field(key, process_value(key, val))

\* one raw value of a parameter: an OR query, an IN query, or a value
process_raw(key, val) ==
    LET split_or == split(val, <<"|">>)
        split_in == split(val, <<",">>)
    IN IF Len(split_or) > 1 THEN process_or_query(key, split_or)
       ELSE IF Len(split_in) > 1 THEN process_in_query(key, split_in)
       ELSE Field(key, process_value(key, split_in[1]))

\* process_and_query(key, values)
process_and_query(key, values) ==
    Combine("and", [i \in 1..Len(values) |-> process_raw(key, values[i])])

\* a compiler that keeps the first raw value of a parameter only
process_arg_first(arg) == process_raw(arg.name, arg.values[1])

\* the loop body of _parse_get_arguments for one parameter
process_arg(arg) ==
    IF Len(arg.values) > 1 THEN process_and_query(arg.name, arg.values)
    ELSE process_raw(arg.name, join(arg.values, <<",">>))

\* the value of a parameter, '' when it is not given: get_argument
get_argument(args, name) ==
    LET hits == {i \in 1..Len(args) : args[i].name = name}
    IN IF hits = {} THEN <<>>
       ELSE LET a == args[CHOOSE i \in hits : TRUE]
            IN a.values[Len(a.values)]

\* _parse_get_arguments: fields and limit are taken out, every other
\* parameter gives one predicate
parse_get_arguments(args) ==
    LET query == SelectSeq(args, LAMBDA a : a.name \notin {S_fields, S_limit})
        fields == get_argument(args, S_fields)
        limit == get_argument(args, S_limit)
        lim == IF limit = <<>> THEN [k |-> "none"]
               ELSE convert_value_type(limit, S_integer)
        query_ret == [i \in 1..Len(query) |-> process_arg(query[i])]
        filter == IF query_ret = <<>> THEN [k |-> "all"]
                  ELSE Combine("and", query_ret)
    IN IF IsErr(lim) \/ IsErr(filter) THEN [status |-> 400]
       ELSE [status |-> 200,
             fields |-> IF fields = <<>> THEN {}
                        ELSE Range(split(fields, <<",">>)),
             limit |-> lim, query |-> filter]

\* the raw values of the requests: literals, alone or behind a range
\* operator, a type marker or both
Literals == {<<"5">>, <<"1", "5">>, <<"a">>, <<"t", "e">>, <<"t", "r", "u", "e">>, <<"1", "i", "n", "t", "e", "g", "e", "r", ":", "5">>}

OpPrefixes == {<<>>} \cup {operators[i] \o <<"=">> : i \in 1..Len(operators)}

TypeMarkers ==
    {<<>>} \cup {value_types[i] \o <<":">> : i \in 1..Len(value_types)}

PlainValues == {p \o m \o l : p \in OpPrefixes, m \in TypeMarkers, l \in Literals}

\* the tokens of the comma-separated values
ListTokens == {<<"5">>, <<"a">>, <<"i", "n", "t", "e", "g", "e", "r", ":", "5">>, <<"i", "n", "t", "e", "g", "e", "r", ":", "a">>, <<"t", "r", "u", "e">>}

ListValues == {a \o <<",">> \o b : a \in ListTokens, b \in ListTokens}
                  \cup {<<"5", ",", "1", "5", ",", "a">>, <<"g", "t", "e", "=", "5", ",", "1", "5">>}

\* values with alternatives
OrValues == {a \o <<"|">> \o b : a \in {<<"a">>, <<"5">>},
                                b \in {<<"i", "d", "=", "a">>, <<"t", "s", "=", "g", "t", "e", "=", "5">>, <<"a">>, <<"t", "s", "=", "5", ",", "1", "5">>, <<"t", "s", "=", "a">>}}
                \cup {<<"a", "|", "i", "d", "=", "5", "|", "t", "s", "=", "1", "5">>, <<"a", "|", "i", "d", "=", "5", "|", "t", "e">>,
                      <<"5", ",", "1", "5", "|", "i", "d", "=", "a">>, <<"5", ",", "a", "|", "5">>}

Arg(name, values) == [name |-> name, values |-> values]

\* requests with one parameter and one raw value
SingleArgs == {<<Arg(key, <<v>>)>> : key \in {S_ts, S_id},
                                    v \in PlainValues \cup ListValues \cup OrValues}

\* what a request may give for each parameter name: nothing, one raw value
\* or several
TsChoices == {<<>>, <<Arg(S_ts, <<<<"5">>>>)>>, <<Arg(S_ts, <<<<"g", "t", "e", "=", "5">>, <<"l", "t", "=", "1", "5">>>>)>>}
IdChoices == {<<>>, <<Arg(S_id, <<<<"a">>>>)>>, <<Arg(S_id, <<<<"a">>, <<"t", "e">>>>)>>,
              <<Arg(S_id, <<<<"a", "|", "t", "s", "=", "5">>, <<"5", ",", "1", "5">>>>)>>}
FieldsChoices == {<<>>, <<Arg(S_fields, <<<<"i", "d", ",", "t", "s">>>>)>>}
LimitChoices == {<<>>, <<Arg(S_limit, <<<<"5">>>>)>>, <<Arg(S_limit, <<<<"a">>>>)>>}

\* requests with any of the parameters ts, id, fields and limit
MultiArgs == {t \o f \o i \o l : t \in TsChoices, f \in FieldsChoices,
                                i \in IdChoices, l \in LimitChoices}

\* get: self._parse_get_arguments()
ParseGetArguments(args) ==
    /\ greq.pc = "idle"
    /\ greq' = [pc |-> "parsed", args |-> args,
                parsed |-> parse_get_arguments(args)]
    /\ UNCHANGED <<coll, now, ir, dreq, last, tomb, ins, cbs, cur, srv, run, ps>>

\* the request goes on with the parsed arguments, or answers 400
ParseDone ==
    /\ greq.pc = "parsed"
    /\ greq' = Idle
    /\ UNCHANGED <<coll, now, ir, dreq, last, tomb, ins, cbs, cur, srv, run, ps>>

---------------------------------------------------------------------------
(* The pub/sub log: creat_pubsub, publish, subscribe *)

\* the subscribers
Subs == {1, 2}

\* create_collection('pubsub', capped=True, size=10000)
PubSubSize == 10000

\* sync_db.collection_names(), as far as the log is concerned
collection_names(p) == IF p.exists THEN {"pubsub"} ELSE {}

\* a creat_pubsub that creates the collection without looking for it
creat_pubsub_always(p) ==
    [p EXCEPT !.exists = TRUE, !.created = p.created + 1,
              !.size = PubSubSize, !.attached = TRUE]

\* creat_pubsub: the collection is created when the database has none, and
\* the application keeps its layer over it in self._pubsub
creat_pubsub(p) ==
    IF "pubsub" \notin collection_names(p)
    THEN [p EXCEPT !.exists = TRUE, !.created = p.created + 1,
                   !.size = PubSubSize, !.attached = TRUE]
    ELSE [p EXCEPT !.seen_existing = TRUE, !.attached = TRUE]

\* publish, subscribe: 'if not hasattr(self, '_pubsub'): self.creat_pubsub()'
with_pubsub(p) == IF ~p.attached THEN creat_pubsub(p) ELSE p

\* the insert or the find reaches the backend: it is noted when the
\* collection does not exist at that moment
reach_backend(p) == [p EXCEPT !.orphan = p.orphan \/ ~p.exists]

\* a find that hands every subscriber the cursor of a subscription that is
\* open already
pubsub_find_shared(subs) ==
    IF \E t \in Subs : subs[t].pc # "idle"
    THEN subs[CHOOSE t \in Subs : subs[t].pc # "idle"].cur
    ELSE NewCursor

\* AsyncmongoDBLayer.find: AsyncmongoDBCursor(None, find_call), a cursor of
\* its own for every call
pubsub_find(subs) == NewCursor

\* the subscriber's state after a step of its cursor
Subscriber(st, pos) ==
    [pc |-> IF st.req = "none" THEN "returned" ELSE "wait",
     cur |-> st.cur, run |-> st.run, req |-> st.req, pos |-> pos]

\* publish(resource, callback): the event is inserted into the log, or the
\* insert fails
Publish(event, fails) ==
    /\ Len(ps.log) < MaxLog
    /\ LET p == reach_backend(with_pubsub(ps))
       IN ps' = [p EXCEPT !.log = IF fails THEN p.log ELSE Append(p.log, event)]
    /\ UNCHANGED <<coll, now, ir, dreq, greq, last, tomb, ins, cbs, cur, srv, run>>

\* subscribe(query, callback): cursor = self._pubsub.find(query,
\* tailable=True, await_data=True); cursor.each(callback=callback)
Subscribe(s, stop_at, stop_val) ==
    /\ ps.subs[s].pc = "idle"
    /\ LET p == reach_backend(with_pubsub(ps))
           st == each([cur |-> pubsub_find(p.subs), req |-> "none",
                       ret |-> "None",
                       run |-> NewRun("each", <<>>, stop_at, stop_val, 0)])
       IN ps' = [p EXCEPT !.subs = [p.subs EXCEPT ![s] = Subscriber(st, 0)]]
    /\ UNCHANGED <<coll, now, ir, dreq, greq, last, tomb, ins, cbs, cur, srv, run>>

\* what a subscriber becomes when the backend answers its find or get_more
\* with the next n events of the log after its cursor's position
reply(sub, log, n, fails, alive) ==
    LET result == IF fails THEN <<>> ELSE SubSeq(log, sub.pos + 1, sub.pos + n)
        error == IF fails THEN "backend failed" ELSE "None"
        c == IF sub.req = "find" THEN find_callback(sub.cur, result, error, alive)
             ELSE get_more_callback(sub.cur, result, error, alive)
    IN Subscriber(each([cur |-> c, req |-> "none", ret |-> "None",
                        run |-> sub.run]),
                  sub.pos + Len(result))

\* the backend answers a subscriber: _find_callback or _get_more_callback,
\* then each again
SubscriberReply(s, n, fails, alive) ==
    /\ ps.subs[s].pc = "wait"
    /\ ps.subs[s].pos + n <= Len(ps.log)
    /\ ps' = [ps EXCEPT !.subs[s] = reply(ps.subs[s], ps.log, n, fails, alive)]
    /\ UNCHANGED <<coll, now, ir, dreq, greq, last, tomb, ins, cbs, cur, srv, run>>

\* the application is started again: the database keeps its collections,
\* the new application object has no _pubsub yet and no subscriber
Restart ==
    /\ ps.attached
    /\ ps' = [ps EXCEPT !.attached = FALSE, !.subs = [s \in Subs |-> Idle]]
    /\ UNCHANGED <<coll, now, ir, dreq, greq, last, tomb, ins, cbs, cur, srv, run>>

---------------------------------------------------------------------------

\* the items of the batches: named, with the first or the last of the times
BatchItems == {BodyItem(id, ts) : id \in Ids, ts \in {1, MaxTime}}

\* the bodies of the write path: any single item, and batches
Bodies == [1..1 -> NamedItems] \cup UNION {[1..n -> BatchItems] : n \in 2..MaxBatch}

Init ==
    /\ coll = <<>>
    /\ now = 1
    /\ ir = Idle
    /\ dreq = [r \in DelSlots |-> Idle]
    /\ greq = Idle
    /\ last = NoStep
    /\ tomb = {}
    /\ ins = Idle
    /\ cbs = <<>>
    /\ cur = Idle
    /\ srv = Idle
    /\ run = Idle
    /\ ps = [exists |-> FALSE, created |-> 0, size |-> 0, attached |-> FALSE,
             seen_existing |-> FALSE, orphan |-> FALSE, log |-> <<>>,
             subs |-> [s \in Subs |-> Idle]]

\* the write path: POST/PUT with batches, rollback, DELETE
NextWrites ==
    \/ Respond
    \/ Tick
    \/ /\ Accepts
       /\ \E body \in Bodies, k \in 0..MaxBatch :
              k <= Len(body) /\ InsertResource(body, "http://h1/nodes", k)
    \/ \E f \in BOOLEAN : Rollback(f)
    \/ \E r \in DelReqs, i \in Ids, f \in BOOLEAN : DeleteFind(r, i, f)
    \/ \E r \in DelReqs, k \in 0..1 : DeleteInsert(r, k)

SpecWrites == Init /\ [][NextWrites]_vars

\* the read path: single documents inserted under two base urls, DELETE, GET
Next ==
    \/ Respond
    \/ Tick
    \/ \E item \in NamedItems, base_url \in BaseUrls, k \in 0..1 :
           InsertResource(<<item>>, base_url, k)
    \/ \E f \in BOOLEAN : Rollback(f)
    \/ \E r \in DelReqs, i \in Ids : DeleteFind(r, i, FALSE)
    \/ \E r \in DelReqs : DeleteInsert(r, 1)
    \/ \E i \in Ids, f \in BOOLEAN : GetAggregate(i, f)
    \/ GetFind

Spec == Init /\ [][Next]_vars

\* Store.insert on its own: single documents and lists
NextInsert ==
    \/ Tick
    \/ \E item \in InsertItems : Insert(<<item>>, FALSE)
    \/ \E data \in InsertLists : Insert(data, TRUE)
    \/ \E k \in 0..MaxList : InsertReply(k)
    \/ InsertDone

SpecInsert == Init /\ [][NextInsert]_vars

\* a caller looping over a cursor
NextCursor ==
    \/ \E docs \in ResultSets : Find(docs)
    \/ FetchNext
    \/ \E n \in 0..MaxResults, fails \in BOOLEAN, alive \in BOOLEAN :
           FindReply(n, fails, alive)
    \/ \E n \in 0..MaxResults, fails \in BOOLEAN, alive \in BOOLEAN :
           GetMoreReply(n, fails, alive)
    \/ NextObject
    \/ CursorDone

SpecCursor == Init /\ [][NextCursor]_vars

\* a caller that calls next_object at any time
NextNextObject ==
    \/ \E docs \in ResultSets : Find(docs)
    \/ FetchNext
    \/ \E n \in 0..MaxResults, fails \in BOOLEAN, alive \in BOOLEAN :
           FindReply(n, fails, alive)
    \/ \E n \in 0..MaxResults, fails \in BOOLEAN, alive \in BOOLEAN :
           GetMoreReply(n, fails, alive)
    \/ CallNextObject
    \/ ReturnNextObject
    \/ CursorDone

SpecNextObject == Init /\ [][NextNextObject]_vars

\* cursor.each with callbacks that go on or stop
NextEach ==
    \/ \E docs \in ResultSets, stop_at \in 0..MaxResults,
          stop_val \in {"None", "False"} : Each(docs, stop_at, stop_val)
    \/ \E n \in 0..MaxResults, fails \in BOOLEAN, alive \in BOOLEAN :
           CallbackReply(n, fails, alive)
    \/ CallbackDone

SpecEach == Init /\ [][NextEach]_vars

\* cursor.to_list with a length
NextToList ==
    \/ \E docs \in ResultSets, length \in {LengthNone} \cup 0..MaxResults + 1 :
           ToList(docs, length)
    \/ \E n \in 0..MaxResults, fails \in BOOLEAN, alive \in BOOLEAN :
           CallbackReply(n, fails, alive)
    \/ CallbackDone

SpecToList == Init /\ [][NextToList]_vars

\* cursor.tail on a capped collection that grows
NextTail ==
    \/ \E docs \in ResultSets, stop_at \in 0..MaxResults : TailCursor(docs, stop_at)
    \/ \E n \in 0..MaxResults, fails \in BOOLEAN, alive \in BOOLEAN :
           CallbackReply(n, fails, alive)
    \/ TailTimer
    \/ \E doc \in ResultDocs : LogAppend(doc)
    \/ CallbackDone

SpecTail == Init /\ [][NextTail]_vars

\* write_psjson and the cursor it reads
NextWriter ==
    \/ \E docs \in WriterSets, c \in WriterCalls : WritePsjson(docs, c)
    \/ FetchNext
    \/ \E n \in 0..MaxResults, fails \in BOOLEAN, alive \in BOOLEAN :
           FindReply(n, fails, alive)
    \/ \E n \in 0..MaxResults, fails \in BOOLEAN, alive \in BOOLEAN :
           GetMoreReply(n, fails, alive)
    \/ WriteNext
    \/ WriteEnd
    \/ WriteDone

SpecWriter == Init /\ [][NextWriter]_vars

\* a list request in keep-alive mode and the client going away
NextKeepAlive ==
    \/ \E docs \in ResultSets, keep_alive \in BOOLEAN :
           KeepAliveGet(docs, keep_alive)
    \/ \E n \in 0..MaxResults, fails \in BOOLEAN, alive \in BOOLEAN :
           KeepAliveReply(n, fails, alive)
    \/ KeepAlivePoll
    \/ OnConnectionClose
    \/ KeepAliveDone

SpecKeepAlive == Init /\ [][NextKeepAlive]_vars

\* listings and single GETs over a collection of revisions and tombstones
NextListing ==
    \/ Respond
    \/ Tick
    \/ \E item \in NamedItems : InsertResource(<<item>>, "http://h1/nodes", 1)
    \/ Rollback(FALSE)
    \/ \E r \in DelReqs, i \in Ids : DeleteFind(r, i, FALSE)
    \/ \E r \in DelReqs : DeleteInsert(r, 1)
    \/ \E i \in Ids, f \in BOOLEAN : GetAggregate(i, f)
    \/ GetFind
    \/ \E query \in Filters, f \in BOOLEAN : ListAggregate(query, f)
    \/ \E f \in BOOLEAN : ListFind(f)

SpecListing == Init /\ [][NextListing]_vars

\* the compilation of the GET arguments of a request
NextCompile ==
    \/ \E args \in SingleArgs \cup MultiArgs : ParseGetArguments(args)
    \/ ParseDone

SpecCompile == Init /\ [][NextCompile]_vars

\* publishers and subscribers of the log, and restarts of the application
NextPubSub ==
    \/ \E event \in ResultDocs, fails \in BOOLEAN : Publish(event, fails)
    \/ \E s \in Subs, stop_at \in 0..1, stop_val \in {"None", "False"} :
           Subscribe(s, stop_at, stop_val)
    \/ \E s \in Subs, n \in 0..MaxLog, fails \in BOOLEAN, alive \in BOOLEAN :
           SubscriberReply(s, n, fails, alive)
    \/ Restart

SpecPubSub == Init /\ [][NextPubSub]_vars

\* DELETE requests of one server that overlap between their find and their
\* insert, over resources created without a client timestamp
NextDeletes ==
    \/ Respond
    \/ Tick
    \/ \E i \in Ids : InsertResource(<<BodyItem(i, TsNone)>>, "http://h1/nodes", 1)
    \/ Rollback(FALSE)
    \/ \E r \in DelSlots, i \in Ids : DeleteFindBeside(r, i)
    \/ \E r \in DelSlots : DeleteInsert(r, 1)

SpecDeletes == Init /\ [][NextDeletes]_vars

---------------------------------------------------------------------------
(* Properties *)

Stored(c, key) == \E i \in DOMAIN c : c[i]["id"] = key[1] /\ c[i]["ts"] = key[2]

\* C1: after any sequence of inserts (POST/PUT), DELETEs and batch rollbacks,
\* no two stored revisions have the same (id, ts) pair.
C1_UniqueIdTs ==
    \A i, j \in DOMAIN coll :
        i # j => ~(coll[i]["id"] = coll[j]["id"] /\ coll[i]["ts"] = coll[j]["ts"])

\* C1: an insert that collided on (id, ts) has been rolled back, and the
\* collection holds a revision written by a DELETE
C1_Witness ==
    /\ last.op = "insert_resource"
    /\ last.insert_error = "duplicate key error"
    /\ \E i \in DOMAIN coll : IsDeleted(coll[i])

\* C4: a DELETE for an identifier whose latest revision (maximum ts) has
\* status DELETED responds 410 (a failure of the backend apart), whatever
\* older revisions of the identifier exist.
C4_DeleteOfDeletedIs410 ==
    (last.op = "delete" /\ last.latest_deleted /\ last.status # 500)
        => last.status = 410

\* C5: when insert_resource of a batch has finished and the rollback's remove
\* reported no error, either every document of the batch is stored or none is.
C5_BatchAllOrNone ==
    (last.op = "insert_resource" /\ last.remove_error = "None")
        => \/ \A key \in last.batch : Stored(coll, key)
           \/ \A key \in last.batch : ~Stored(coll, key)

\* C5: a batch of three documents whose third collided has been rolled back
C5_Witness ==
    /\ last.op = "insert_resource"
    /\ last.size = 3
    /\ Cardinality(last.batch) = 3
    /\ last.insert_error = "duplicate key error"
    /\ last.remove_error = "None"
    /\ last.inserted = 2

\* C6: a batch insert that failed with a duplicate-key error is reported with
\* status 409 whether or not the rollback succeeded, with code 409001 exactly
\* when the remove reported no error and 409002 exactly when it reported one,
\* and with the result None.
C6_ConflictCodes ==
    (last.op = "insert_resource" /\ last.insert_error = "duplicate key error")
        => /\ last.error.status_code = 409
           /\ last.error.code = 409001 <=> last.remove_error = "None"
           /\ last.error.code = 409002 <=> last.remove_error # "None"
           /\ last.result_none

\* C6: a duplicate-key failure whose rollback failed has been reported
C6_Witness ==
    /\ last.op = "insert_resource"
    /\ last.insert_error = "duplicate key error"
    /\ last.remove_error # "None"
    /\ last.error.code = 409002

\* C2: a single-resource GET of i (no filter parameters) that answers with a
\* document emits the revision of i with the maximum ts, and only it.
C2_GetEmitsLatest ==
    (last.op = "get" /\ ~last.dirty /\ last.status = 200)
        => last.out = <<HideId(Latest(coll, last.id))>>

\* C3: after a DELETE of an active resource i has completed with success, a
\* single-resource GET of i, with no insert for i in between, responds 410
\* (a failure of the backend apart).
C3_GetAfterDeleteIs410 ==
    (last.op = "get" /\ last.after_delete /\ ~last.dirty /\ last.status # 500)
        => last.status = 410

\* C7: Store.insert passes to its callback the assigned ids in the shape and
\* order of the input: one id for a single document, and for a list of n
\* documents a list of n ids whose k-th element is the _id of the k-th
\* document as stored.
C7_InsertResultShape ==
    (ins.pc = "done" /\ ins.error = "None")
        => LET res == cbs[Len(cbs)].result
           IN /\ res.kind = (IF ins.is_list THEN "list" ELSE "scalar")
              /\ Len(res.ids) = Len(ins.data)
              /\ \A k \in DOMAIN ins.data :
                    \E j \in DOMAIN coll :
                        /\ coll[j]["_id"] = res.ids[k]
                        /\ \A f \in DOMAIN ins.data[k] \ {"ts"} :
                               coll[j][f] = ins.data[k][f]

\* C7: a list of two documents has been inserted, the callback has its ids
C7_Witness ==
    /\ ins.pc = "done"
    /\ ins.error = "None"
    /\ ins.is_list
    /\ Len(ins.data) = 2
    /\ cbs[1].result.ids = ins.object_ids

\* C8: every call to Store.insert leads to exactly one invocation of the
\* caller's callback: with the assigned id(s) and error=None when the backend
\* succeeds, with the error when it fails.
C8_OneCallback ==
    ins.pc = "done"
        => /\ Len(cbs) = 1
           /\ cbs[1].error = ins.error
           /\ ins.error = "None"
                 => cbs[1].result = Shaped(ins.object_ids, ins.is_list)

\* C9: Store.insert assigns a ts only to documents lacking one (absent or
\* None) and an id only to documents lacking one; every field the caller
\* supplied reaches the backend unchanged, the only additions being the
\* missing ts, id and _id.
C9_InsertFrame ==
    ins.pc \in {"sent", "done"}
        => \A k \in DOMAIN ins.data :
              LET d == ins.data[k]
                  e == ins.ldata[k]
              IN /\ DOMAIN d \subseteq DOMAIN e
                 /\ DOMAIN e \ DOMAIN d \subseteq {"ts", "id", "_id"}
                 /\ \A f \in DOMAIN d :
                        (f = "ts" /\ d[f] = TsNone) \/ e[f] = d[f]
                 /\ ins.pc = "done" /\ ins.error = "None"
                        => \E j \in DOMAIN coll : coll[j] = e

\* C9: a document that came with its ts but with no id has been stored
C9_Witness ==
    /\ ins.pc = "done"
    /\ ins.error = "None"
    /\ \E k \in DOMAIN ins.data :
          /\ "ts" \in DOMAIN ins.data[k]
          /\ ins.data[k]["ts"] # TsNone
          /\ "id" \notin DOMAIN ins.data[k]

\* C10: whenever fetch_next resolves to True the buffer holds a document, so
\* the next_object that follows returns one; the loop
\* 'while (yield cursor.fetch_next): cursor.next_object()' never raises.
C10_FetchNextSafe ==
    /\ run.pc = "next" => buffer_size(cur) > 0
    /\ run.pc # "raised"

\* C10: fetch_next has resolved to True after a get_more, documents having
\* been consumed before
C10_Witness ==
    /\ run.pc = "next"
    /\ run.seen # <<>>
    /\ srv.docs # <<>>

Delivered(docs) == [i \in 1..Len(docs) |-> [doc |-> <<docs[i]>>, error |-> "None"]]

\* C12: when each has returned for good on a finite result set that the
\* backend delivered without error in any number of batches, a callback that
\* always asks to continue has been given every document of the result set
\* exactly once and then, last, the end-of-stream call callback(None, None).
C12_EachDeliversAll ==
    (/\ run.pc = "returned"
     /\ run.op = "each"
     /\ run.stop_at = 0
     /\ run.clean)
        => run.calls = Append(Delivered(run.result),
                              [doc |-> <<>>, error |-> "None"])

\* C13: once the callback given to each has returned a stop value (None or
\* False), each invokes it no more, neither for a remaining document nor for
\* the end of the stream, and asks the backend for nothing more.
C13_EachStops ==
    (/\ run.pc \in {"wait", "returned"}
     /\ run.op = "each"
     /\ run.stopped_at # 0)
        => /\ Len(run.calls) = run.stopped_at
           /\ ~run.fetch_after_stop

\* C14: to_list(length=n) on a non-tailable cursor over m documents, served
\* without error, asks for more only while fewer than n documents are
\* buffered and the cursor is alive, and hands its callback once exactly the
\* first min(n, m) documents in store order, which leave the buffer: what was
\* returned, what stays buffered and what the server still holds make up the
\* result set.
C14_ToListFirstN ==
    /\ (/\ run.pc = "wait"
        /\ run.op = "to_list"
        /\ run.length # LengthNone
        /\ srv.pc = "more")
           => /\ buffer_size(cur) < run.length
              /\ cur.alive
    /\ (/\ run.pc = "returned"
        /\ run.op = "to_list"
        /\ run.length # LengthNone
        /\ run.clean)
           => /\ run.calls =
                    <<[doc |-> SubSeq(run.result, 1,
                                      Min(run.length, Len(run.result))),
                       error |-> "None"]>>
              /\ run.calls[1].doc \o (IF cur.data_none THEN <<>> ELSE cur.data)
                     \o srv.docs = run.result

\* C14: to_list(length=2) over three documents that differ has returned the
\* first two after a get_more, the third staying on the server
C14_Witness ==
    /\ run.pc = "returned"
    /\ run.op = "to_list"
    /\ run.clean
    /\ run.length = 2
    /\ Len(run.result) = 3
    /\ run.result[1] # run.result[2]
    /\ run.got_more
    /\ run.calls = <<[doc |-> SubSeq(run.result, 1, 2), error |-> "None"]>>
    /\ cur.data = <<>>
    /\ srv.docs = <<run.result[3]>>

\* C15: when the backend has reported an error for the find or the get_more
\* that fetch_next was waiting for, fetch_next yields that error to the loop:
\* the loop is never resumed as on the end of the data.
C15_FetchNextYieldsError ==
    (/\ cur.pc = "open"
     /\ cur.error # "None"
     /\ run.pc # "wait")
        => run.pc = "raised"

\* C16: when the timeout scheduled for the dead cursor of an active tail (the
\* subscriber has not stopped) has fired, the subscriber has been given no
\* end-of-stream call and the query has been issued to the backend again: a
\* second find is on its way or has been answered.
C16_TailReissuesQuery ==
    (/\ run.pc \in {"wait", "returned"}
     /\ run.op = "tail"
     /\ run.retailed
     /\ run.stopped_at = 0)
        => /\ \A i \in 1..Len(run.calls) :
                  run.calls[i].doc # <<>> \/ run.calls[i].error # "None"
           /\ srv.pc = "find" \/ run.finds >= 2

\* C17: while a tail subscription is active, its callback always asking to
\* continue and the backend reporting no error, the adapter does not come to
\* rest (no request to the backend pending, no timeout scheduled) with a
\* document it has read from the log still undelivered: documents after the
\* first of a batch included.
C17_TailDeliversAll ==
    (/\ run.pc = "returned"
     /\ run.op = "tail"
     /\ run.stop_at = 0
     /\ run.timers = 0
     /\ cur.error = "None"
     /\ ~cur.data_none)
        => \A i \in 1..Len(cur.data) :
               \E j \in 1..Len(run.calls) : run.calls[j].doc = <<cur.data[i]>>

\* C18: once the callback given to tail has returned None the subscription is
\* over: the native cursor is killed, the callback is not invoked again, not
\* even for a buffered document, and no reconnect is scheduled.
C18_TailStopTerminal ==
    (/\ run.pc \in {"wait", "returned"}
     /\ run.op = "tail"
     /\ run.stopped_at # 0)
        => /\ ~cur.alive
           /\ Len(run.calls) = run.stopped_at
           /\ run.timers = 0
           /\ run.pc = "returned"

\* the documents a response shows: DELETED ones are left out unless
\* include_deleted was asked
Shown(r) ==
    SelectSeq(r.seen, LAMBDA d : ~(IsDeleted(d) /\ ~r.call.include_deleted))

RECURSIVE Joined(_)
\* documents with one separator between consecutive ones
Joined(docs) ==
    IF docs = <<>> THEN <<>>
    ELSE IF Len(docs) = 1 THEN <<[t |-> "doc", doc |-> docs[1]]>>
    ELSE <<[t |-> "doc", doc |-> docs[1]], [t |-> "sep"]>> \o Joined(Tail(docs))

\* the documents written so far
Emitted(r) == SelectSeq(r.out, LAMBDA x : x.t \in {"doc", "href"})

\* C19: a finished list response is exactly one opening delimiter, the
\* non-DELETED documents the cursor returned, each once and in cursor order,
\* with one separator between consecutive ones and none before the first or
\* after the last, one closing delimiter and the final newline, wherever the
\* DELETED documents fall; when the cursor returned nothing it is the empty
\* bracket pair with the success status.
C19_ListOutput ==
    (/\ run.pc = "finished"
     /\ run.call.is_list)
        => /\ run.out = <<[t |-> "open"]>> \o Joined(Shown(run))
                            \o <<[t |-> "close"], [t |-> "nl"]>>
           /\ run.seen = <<>> => /\ run.status = run.call.success_status
                                 /\ run.content_type

\* C19: a list response has finished over a DELETED document followed by two
\* live ones that differ
C19_Witness ==
    /\ run.pc = "finished"
    /\ run.call.is_list
    /\ Len(run.seen) = 3
    /\ IsDeleted(run.seen[1])
    /\ ~IsDeleted(run.seen[2])
    /\ ~IsDeleted(run.seen[3])
    /\ run.seen[2] # run.seen[3]
    /\ Len(run.out) = 6

\* C20: a single response holds at most one document at any time; finished,
\* it is status 404 and no document when the cursor returned nothing, status
\* 410 and no document when the first revision returned is DELETED, and
\* otherwise that first revision alone with the success status, whatever the
\* cursor still holds or could fetch.
C20_SingleOutput ==
    (/\ cur.pc = "open"
     /\ ~run.call.is_list)
        => /\ Len(Emitted(run)) <= 1
           /\ run.pc = "finished"
                 => IF run.seen = <<>>
                    THEN run.status = 404 /\ run.out = <<[t |-> "nl"]>>
                    ELSE IF IsDeleted(run.seen[1])
                    THEN run.status = 410 /\ run.out = <<[t |-> "nl"]>>
                    ELSE /\ run.status = run.call.success_status
                         /\ run.out = <<[t |-> "doc", doc |-> run.seen[1]],
                                        [t |-> "nl"]>>

\* C20: a single response has finished with the first live revision while the
\* cursor, still alive, holds a second one and the server a third
C20_Witness ==
    /\ run.pc = "finished"
    /\ ~run.call.is_list
    /\ Len(Emitted(run)) = 1
    /\ ~IsDeleted(run.seen[1])
    /\ cur.alive
    /\ Len(cur.data) = 1
    /\ srv.docs # <<>>

C22_ResolvedIsLatest ==
    greq.pc = "list_find"
        => \A p \in greq.conds :
               /\ DOMAIN p = {"id", "ts"}
               /\ Revisions(coll, p["id"]) # {}
               /\ p["ts"] = Latest(coll, p["id"])["ts"]

C24_ListingHidesDeleted ==
    (/\ last.op = "list"
     /\ last.status = 200
     /\ ~last.find_failed)
        => /\ \A d \in Range(last.out) :
                  ~IsDeleted(d) /\ ~LatestDeleted(coll, d["id"])
           /\ last.query = MatchAll
                  => \A i \in IdsOf(coll) :
                         ~LatestDeleted(coll, i)
                             => HideId(Latest(coll, i)) \in Range(last.out)

\* C25: a DELETE that is answered 200 has added exactly one revision to the
\* collection, of the deleted identifier, with status DELETED and a ts no
\* stored revision of that identifier has, and has left every revision stored
\* before in its place and unchanged; a DELETE answered otherwise has left
\* the collection as it was.
C25_DeleteAddsTombstone ==
    [][(last' # last /\ last'.op = "delete")
           => IF last'.status = 200
              THEN /\ Len(coll') = Len(coll) + 1
                   /\ SubSeq(coll', 1, Len(coll)) = coll
                   /\ coll'[Len(coll')]["id"] = last'.id
                   /\ IsDeleted(coll'[Len(coll')])
                   /\ \A e \in Revisions(coll, last'.id) :
                          e["ts"] # coll'[Len(coll')]["ts"]
              ELSE coll' = coll]_vars

\* C25: a DELETE has been answered 200 for a resource with two revisions
\* stored before, both still there under the tombstone
C25_Witness ==
    /\ last.op = "delete"
    /\ last.status = 200
    /\ Len(coll) = 3
    /\ IsDeleted(coll[3])
    /\ \A i \in 1..3 : coll[i]["id"] = last.id
    /\ ~IsDeleted(coll[1])
    /\ ~IsDeleted(coll[2])

\* the request compiled last, with one parameter of the filter and one raw
\* value
OneValue ==
    /\ greq.pc = "parsed"
    /\ Len(greq.args) = 1
    /\ Len(greq.args[1].values) = 1
    /\ greq.args[1].name \notin {S_fields, S_limit}

TheKey == greq.args[1].name

TheValue == greq.args[1].values[1]

\* what a request with one predicate compiles to, 400 when the predicate
\* cannot be built
Compiled(predicate) ==
    IF IsErr(predicate) THEN [status |-> 400]
    ELSE [status |-> 200, fields |-> {}, limit |-> [k |-> "none"],
          query |-> [k |-> "and", preds |-> <<predicate>>]]

\* the text that follows the first 'op=' of a value
rest_exact(value, op) == strip_prefix(value, op \o <<"=">>)

\* C26: a value 'op=rest' with op one of lt, lte, gt, gte compiles to the
\* range comparison of the field with the conversion of rest, rest being
\* exactly the text after the first 'op='
C26_RangeOperator ==
    (/\ OneValue
     /\ Occurrences(TheValue, <<",">>) = {}
     /\ Occurrences(TheValue, <<"|">>) = {}
     /\ FirstPrefix(TheValue, operators, <<"=">>) # 0)
        => LET op == operators[FirstPrefix(TheValue, operators, <<"=">>)]
               arg == process_value(TheKey, rest_exact(TheValue, op))
           IN greq.parsed =
                  Compiled(Field(TheKey,
                      IF IsErr(arg) THEN Err400
                      ELSE [k |-> "op", op |-> OpName(op), arg |-> arg]))

\* the alternatives of the value compiled last
Alternatives == split(TheValue, <<"|">>)

\* the place of the first '=' of an alternative, 0 when it has none
FirstEquals(alt) ==
    IF \E i \in 1..Len(alt) : alt[i] = "="
    THEN CHOOSE i \in 1..Len(alt) :
             alt[i] = "=" /\ \A j \in 1..(i - 1) : alt[j] # "="
    ELSE 0

\* an alternative field=value, compiled against the field it names
Named(alt) ==
    LET field == SubSeq(alt, 1, FirstEquals(alt) - 1)
    IN Field(field,
             process_value(field, SubSeq(alt, FirstEquals(alt) + 1, Len(alt))))

\* an alternative compiled against the parameter's own field
Own(alt) == Field(TheKey, process_value(TheKey, alt))

\* C27: a value with '|' compiles to the OR of its alternatives, each
\* compiled on its own; the first alternative goes with the parameter's own
\* field, every later one names its field as field=value, and a later
\* alternative without a field name makes the compilation fail with 400
C27_OrAlternatives ==
    (OneValue /\ Len(Alternatives) > 1)
        => greq.parsed =
               Compiled(Combine("or", [i \in 1..Len(Alternatives) |->
                   IF i = 1 THEN Own(Alternatives[1])
                   ELSE IF FirstEquals(Alternatives[i]) = 0 THEN Err400
                   ELSE Named(Alternatives[i])]))

\* a request whose second alternative names another field than the
\* parameter's, compiled to an OR
C27_Witness ==
    /\ OneValue
    /\ Len(Alternatives) > 1
    /\ greq.parsed.status = 200
    /\ greq.parsed.query.preds[1].k = "or"
    /\ greq.parsed.query.preds[1].preds[2].field # TheKey

\* C27 as stated: a later alternative without a field name is compiled
\* against the parameter's own field
C27_OrAlternativesOwnField ==
    (OneValue /\ Len(Alternatives) > 1)
        => greq.parsed =
               Compiled(Combine("or", [i \in 1..Len(Alternatives) |->
                   IF i = 1 \/ FirstEquals(Alternatives[i]) = 0
                   THEN Own(Alternatives[i])
                   ELSE Named(Alternatives[i])]))

\* the remainder of a value after its type marker
typed_exact(value, t) == strip_prefix(value, t \o <<":">>)

\* C28: a value with one of the prefixes integer:, number:, string:,
\* boolean: compiles to the equality of the field with the remainder
\* converted to that type, and to 400 without a filter when the remainder
\* cannot be converted
C28_TypeMarker ==
    (/\ OneValue
     /\ Occurrences(TheValue, <<",">>) = {}
     /\ Occurrences(TheValue, <<"|">>) = {}
     /\ FirstPrefix(TheValue, operators, <<"=">>) = 0
     /\ FirstPrefix(TheValue, value_types, <<":">>) # 0)
        => LET t == value_types[FirstPrefix(TheValue, value_types, <<":">>)]
           IN greq.parsed =
                  Compiled(Field(TheKey,
                      convert_value_type(typed_exact(TheValue, t), t)))

\* the tokens of the value compiled last
Tokens == split(TheValue, <<",">>)

\* a token converted on its own: as its type marker says, as a number for
\* ts and ttl, as a string for every other field
TokenValue(key, token) ==
    IF FirstPrefix(token, operators, <<"=">>) # 0
    THEN process_value(key, token)
    ELSE IF FirstPrefix(token, value_types, <<":">>) # 0
    THEN LET t == value_types[FirstPrefix(token, value_types, <<":">>)]
         IN convert_value_type(typed_exact(token, t), t)
    ELSE IF key \in {S_ts, S_ttl}
    THEN IF IsDigits(token) THEN [k |-> "num", n |-> Decimal(token)]
         ELSE Err400
    ELSE Str(token)

\* C29: a value with ',' compiles to one IN predicate over its tokens, each
\* converted on its own: to a number for ts and ttl when it has no type
\* marker, to a string for every other field; a token that cannot be
\* converted makes the compilation fail with 400
C29_InTokens ==
    (OneValue /\ Len(Tokens) > 1 /\ Occurrences(TheValue, <<"|">>) = {})
        => LET vals == [i \in 1..Len(Tokens) |-> TokenValue(TheKey, Tokens[i])]
           IN greq.parsed =
                  Compiled(Field(TheKey,
                      IF \E i \in 1..Len(vals) : IsErr(vals[i]) THEN Err400
                      ELSE [k |-> "in", vals |-> vals]))

\* a value of ts with unmarked tokens, compiled to an IN over numbers
C29_Witness ==
    /\ OneValue
    /\ Len(Tokens) > 1
    /\ Occurrences(TheValue, <<"|">>) = {}
    /\ TheKey = S_ts
    /\ \A i \in 1..Len(Tokens) : IsDigits(Tokens[i])
    /\ greq.parsed.status = 200
    /\ greq.parsed.query.preds[1].val.k = "in"
    /\ Len(greq.parsed.query.preds[1].val.vals) = Len(Tokens)

\* the parameters of the request compiled last that are not reserved
FilterArgs ==
    SelectSeq(greq.args, LAMBDA a : a.name \notin {S_fields, S_limit})

\* the reserved parameters the request gives
Reserved(name) == SelectSeq(greq.args, LAMBDA a : a.name = name)

RECURSIVE FieldsIn(_)
\* the fields a filter has predicates on
FieldsIn(filter) ==
    IF filter.k = "field" THEN {filter.field}
    ELSE IF filter.k \in {"and", "or"}
    THEN UNION {FieldsIn(filter.preds[i]) : i \in 1..Len(filter.preds)}
    ELSE {}

\* C30: the compiled filter is the AND of one predicate per parameter, the
\* raw values of a parameter given several times being combined with AND;
\* without parameters it is the match-all filter; fields and limit are
\* returned apart and the filter has no predicate on them
C30_FilterIsAnd ==
    (greq.pc = "parsed" /\ greq.parsed.status = 200)
        => /\ IF FilterArgs = <<>> THEN greq.parsed.query = [k |-> "all"]
              ELSE /\ greq.parsed.query.k = "and"
                   /\ Len(greq.parsed.query.preds) = Len(FilterArgs)
                   /\ \A i \in 1..Len(FilterArgs) :
                          LET a == FilterArgs[i]
                          IN greq.parsed.query.preds[i] =
                                 IF Len(a.values) > 1
                                 THEN [k |-> "and",
                                       preds |-> [j \in 1..Len(a.values) |->
                                           process_raw(a.name, a.values[j])]]
                                 ELSE process_raw(a.name, a.values[1])
           /\ FieldsIn(greq.parsed.query) \cap {S_fields, S_limit} = {}
           /\ greq.parsed.fields =
                  IF Reserved(S_fields) = <<>> THEN {}
                  ELSE Range(split(Reserved(S_fields)[1].values[1], <<",">>))
           /\ greq.parsed.limit =
                  IF Reserved(S_limit) = <<>> THEN [k |-> "none"]
                  ELSE [k |-> "int",
                        i |-> Decimal(Reserved(S_limit)[1].values[1])]

\* a request with two parameters, one of them given twice, and with fields
\* and limit, compiled to a filter
C30_Witness ==
    /\ greq.pc = "parsed"
    /\ greq.parsed.status = 200
    /\ Len(FilterArgs) = 2
    /\ \E i \in 1..2 : Len(FilterArgs[i].values) > 1
    /\ greq.parsed.fields # {}
    /\ greq.parsed.limit.k = "int"
    /\ Len(greq.parsed.query.preds) = 2

\* an alternative's value compiled for a field: an IN over its tokens when
\* it has a ',', the converted value otherwise
AlternativeValue(field, value) ==
    LET tokens == split(value, <<",">>)
        vals == [i \in 1..Len(tokens) |-> TokenValue(field, tokens[i])]
    IN IF Len(tokens) = 1 THEN process_value(field, value)
       ELSE IF \E i \in 1..Len(vals) : IsErr(vals[i]) THEN Err400
       ELSE [k |-> "in", vals |-> vals]

\* C40: on a raw value with both ',' and '|' the pipe rule comes first: the
\* value is cut at '|' into alternatives combined with OR, and the comma
\* rule is applied inside each alternative, giving an IN over the tokens of
\* that alternative
C40_PipeBeforeComma ==
    (/\ OneValue
     /\ Occurrences(TheValue, <<",">>) # {}
     /\ Occurrences(TheValue, <<"|">>) # {})
        => greq.parsed =
               Compiled(Combine("or", [i \in 1..Len(Alternatives) |->
                   LET alt == Alternatives[i]
                       eq == FirstEquals(alt)
                   IN IF i = 1
                      THEN Field(TheKey, AlternativeValue(TheKey, alt))
                      ELSE IF eq = 0 THEN Err400
                      ELSE Field(SubSeq(alt, 1, eq - 1),
                               AlternativeValue(SubSeq(alt, 1, eq - 1),
                                   SubSeq(alt, eq + 1, Len(alt))))]))

\* a value with ',' and '|' compiled to an OR one of whose alternatives is
\* an IN
C40_Witness ==
    /\ OneValue
    /\ Occurrences(TheValue, <<",">>) # {}
    /\ Occurrences(TheValue, <<"|">>) # {}
    /\ greq.parsed.status = 200
    /\ greq.parsed.query.preds[1].k = "or"
    /\ \E i \in 1..Len(greq.parsed.query.preds[1].preds) :
           greq.parsed.query.preds[1].preds[i].val.k = "in"

\* C40 as stated: the comma rule comes first, the value is cut at ',' and
\* compiles to one IN over the tokens
C40_CommaBeforePipe ==
    (/\ OneValue
     /\ Occurrences(TheValue, <<",">>) # {}
     /\ Occurrences(TheValue, <<"|">>) # {})
        => LET vals == [i \in 1..Len(Tokens) |-> process_value(TheKey, Tokens[i])]
           IN greq.parsed =
                  Compiled(Field(TheKey,
                      IF \E i \in 1..Len(vals) : IsErr(vals[i]) THEN Err400
                      ELSE [k |-> "in", vals |-> vals]))

\* C38: the DELETED revision a DELETE has written has a ts above the ts of
\* every revision of the same identifier stored at that moment, those with
\* a ts supplied by a client included
C38_TombstoneTsAbove ==
    (last.op = "delete" /\ last.status = 200)
        => \A i \in 1..(Len(coll) - 1) :
               coll[i]["id"] = last.id => coll[i]["ts"] < coll[Len(coll)]["ts"]

\* C39: whatever the interleaving of the DELETE requests of one resource, no
\* DELETED revision is written for an identifier whose latest revision is
\* DELETED at the moment of the write, so at most one tombstone results.
C39_NoTombstoneOverTombstone ==
    [][\A r \in DelSlots :
          (dreq[r].pc = "insert" /\ dreq'[r].pc = "idle"
           /\ Len(coll') = Len(coll) + 1)
          => ~LatestDeleted(coll, dreq[r].id)]_vars

\* C33: the rollback of a failed batch insert leaves every revision that was
\* stored before the batch insert stored and unchanged, the revision whose
\* (id, ts) made the insert fail included.  The revisions stored before are
\* the ones under the documents the insert added.
C33_RollbackKeepsStored ==
    [][(ir.pc = "rollback" /\ ir'.pc = "idle")
           => \A i \in 1..(Len(coll) - ir.inserted) :
                  \E j \in 1..Len(coll') : coll'[j] = coll[i]]_vars

\* C34: every document a single-resource GET of i emits is a revision of i,
\* also when another resource has a revision with the same ts, and its
\* (id, ts) pair is the pair of the latest revision of i
C34_EmittedInResolvedSet ==
    (last.op = "get" /\ last.status = 200)
        => \A n \in 1..Len(last.out) :
               /\ last.out[n]["id"] = last.id
               /\ ~last.dirty
                      => last.out[n]["ts"] = Latest(coll, last.id)["ts"]

\* C35: the text of a list response streamed in batches, empty ones
\* included, is well formed: the opening bracket first, the documents with
\* one separator between two of them and none next to a bracket, and the
\* closing bracket, which is written with the last batch only
C35_StreamedListWellFormed ==
    "conn" \in DOMAIN greq
        => /\ (greq.pc = "finished" /\ greq.status = 200 /\ greq.closed_list)
                  => greq.text = dumps_mongo(greq.out)
           /\ (\E i \in 1..Len(greq.text) : greq.text[i] = Close)
                  => greq.closed_list

\* C36: on every exit path of a streaming GET the handler's cursor has been
\* released by the time the response is finished
C36_CursorReleasedAtFinish ==
    ("conn" \in DOMAIN greq /\ greq.pc = "finished") => ~greq.has_cursor

\* C37: a batch that arrives after on_connection_close released the cursor
\* is handled without reading the released cursor: _get_on_response never
\* raises on the deleted attribute
C37_NoUseAfterRelease ==
    "conn" \in DOMAIN greq => greq.pc # "raised"

\* what a subscriber can become by a step of its own: by its subscribe call
\* with a cursor of its own, or by the backend's reply to its cursor, read
\* from the log at the cursor's own position
OwnSteps(sub, log) ==
    IF sub.pc = "idle"
    THEN {Subscriber(each([cur |-> NewCursor, req |-> "none", ret |-> "None",
                           run |-> NewRun("each", <<>>, stop_at, stop_val, 0)]),
                     0) : stop_at \in 0..1, stop_val \in {"None", "False"}}
    ELSE IF sub.pc = "wait"
    THEN {reply(sub, log, n, fails, alive) :
              n \in 0..(Len(log) - sub.pos), fails \in BOOLEAN,
              alive \in BOOLEAN}
    ELSE {}

\* C31: subscriptions are independent: a step that changes a subscriber
\* leaves the log as it is and every other subscriber as it is, and what
\* the subscriber becomes, the events delivered to it included, is given by
\* its own cursor and the log alone (a restart of the application ends
\* every subscription)
C31_SubscribersIndependent ==
    [][/\ ps'.subs # ps.subs => ps'.log = ps.log
       /\ \A s \in Subs :
              ps'.subs[s] # ps.subs[s]
                  => \/ ps'.subs[s] = Idle
                     \/ /\ \A t \in Subs \ {s} : ps'.subs[t] = ps.subs[t]
                        /\ ps'.subs[s] \in OwnSteps(ps.subs[s], ps.log)]_vars

\* one subscriber has been delivered an event and has stopped, while the
\* other one, subscribed too, lags behind the log
C31_Witness ==
    /\ ps.subs[1].pc = "returned"
    /\ ps.subs[1].run.stopped_at # 0
    /\ ps.subs[1].run.calls[1].doc # <<>>
    /\ ps.subs[2].pc = "wait"
    /\ ps.subs[2].pos < Len(ps.log)

\* C32: the pub/sub log collection exists whenever an insert into it or a
\* find against it reaches the backend, it is created at most once, restarts
\* of the application included, and with the fixed default capacity
C32_LogCreatedOnce ==
    /\ ~ps.orphan
    /\ ps.created <= 1
    /\ ps.exists => ps.size = PubSubSize
    /\ (ps.log # <<>> \/ \E s \in Subs : ps.subs[s].pc # "idle") => ps.exists

\* after a restart the application has found the collection of the earlier
\* run and has published into it and subscribed to it
C32_Witness ==
    /\ ps.seen_existing
    /\ ps.created = 1
    /\ ps.log # <<>>
    /\ \E s \in Subs : ps.subs[s].pc # "idle"

====
